---- MODULE Spec2Model ----
(***************************************************************************)
(* UaScript 2.0 bytecode core: the compiler (AST -> module) as recursive   *)
(* operators over an explicit compiler state, and the stack VM as a state  *)
(* machine that executes one instruction per step.                         *)
(*                                                                         *)
(* Conventions.  Operands, slots and instruction pointers are 0-based as   *)
(* in the source; TLA+ sequences are 1-based, so element i of a source     *)
(* array a is a[i + 1] here.  JavaScript objects that the source shares by *)
(* reference (compiled functions, class definitions, upvalue cells, cell   *)
(* vectors, instances) live in heaps (sequences) and are named by their    *)
(* 1-based position in the heap.                                           *)
(***************************************************************************)
EXTENDS Integers, Sequences, FiniteSets, TLC

\* ------------------------------------------------------------------------
\* Bounds of the model
\* ------------------------------------------------------------------------
MaxCalls == 3
MaxFrames == 4
MaxArgs == 3

\* ------------------------------------------------------------------------
\* bytecode.ts: instructions and runtime values
\* ------------------------------------------------------------------------

\* Instruction.arg is optional; an instruction emitted without operand
\* carries undefined, which is no number.
NoArg == -1

Instr(op, arg) == [op |-> op, arg |-> arg]

ValInt(n) == [type |-> "int", value |-> n]
ValFloat(n) == [type |-> "float", value |-> n]
ValString(s) == [type |-> "string", value |-> s]
ValBool(b) == [type |-> "bool", value |-> b]
ValNone == [type |-> "none"]
\* { type: 'function', value: fn } with fn a CompiledFunction (heap id)
ValFunction(fid) == [type |-> "function", value |-> fid, native |-> FALSE]
\* { type: 'function', value: builtin } with 'fn' in value
ValBuiltin(name) == [type |-> "function", value |-> name, native |-> TRUE]
ValClass(cid) == [type |-> "class", value |-> cid]
ValClosure(fid, vec) == [type |-> "closure", fn |-> fid, cells |-> vec]
ValBoundMethod(receiver, fid) ==
    [type |-> "boundMethod", receiver |-> receiver, method |-> fid]
ValInstance(oid) == [type |-> "instance", value |-> oid]
\* { type: 'list', value: elements } with elements an array (heap id)
ValList(oid) == [type |-> "list", value |-> oid]

isTruthy(v) ==
    CASE v.type = "bool" -> v.value
      [] v.type = "none" -> FALSE
      [] v.type = "int" -> v.value # 0
      [] v.type = "float" -> v.value # 0
      [] v.type = "string" -> Len(v.value) > 0
      [] OTHER -> TRUE

\* ------------------------------------------------------------------------
\* Small helpers for JavaScript arrays and Maps
\* ------------------------------------------------------------------------
EmptyMap == <<>>

MapHas(m, k) == k \in DOMAIN m

MapSet(m, k, v) == (k :> v) @@ m

\* Array.prototype.indexOf: first 0-based position, -1 when absent
IndexOf(arr, x) ==
    IF \E i \in 1..Len(arr) : arr[i] = x
    THEN (CHOOSE i \in 1..Len(arr) :
             arr[i] = x /\ \A j \in 1..(i - 1) : arr[j] # x) - 1
    ELSE -1

SetMax(S) == CHOOSE x \in S : \A y \in S : y <= x

Reverse(s) == [i \in 1..Len(s) |-> s[Len(s) + 1 - i]]

\* ------------------------------------------------------------------------
\* parser.ts: the AST nodes the compiler consumes
\* ------------------------------------------------------------------------
Param(n) == [name |-> n]

Literal(t, v) == [kind |-> "Literal", type |-> t, value |-> v]
IntLit(n) == Literal("integer", n)
FloatLit(n) == Literal("float", n)
StrLit(s) == Literal("string", s)
BoolLit(b) == Literal("boolean", b)
NoneLit == Literal("none", "null")
Identifier(n) == [kind |-> "Identifier", name |-> n]
BinaryExpr(o, l, r) ==
    [kind |-> "BinaryExpr", operator |-> o, left |-> l, right |-> r]
UnaryExpr(o, e) == [kind |-> "UnaryExpr", operator |-> o, operand |-> e]
CallExpr(c, args) == [kind |-> "CallExpr", callee |-> c, args |-> args]
PrintExpr(args) == CallExpr(Identifier("__print__"), args)
MemberExpr(o, p) == [kind |-> "MemberExpr", object |-> o, property |-> p]
IndexExpr(o, i) == [kind |-> "IndexExpr", object |-> o, index |-> i]
ListExpr(els) == [kind |-> "ListExpr", elements |-> els]
LambdaExpr(ps, b) == [kind |-> "LambdaExpr", params |-> ps, body |-> b]
PipeExpr(l, r) == [kind |-> "PipeExpr", left |-> l, right |-> r]
NewExpr(c, args) == [kind |-> "NewExpr", className |-> c, args |-> args]
AssignExpr(t, v) == [kind |-> "AssignExpr", target |-> t, value |-> v]
AwaitExpr(e) == [kind |-> "AwaitExpr", expression |-> e]

BlockStatement(ss) == [kind |-> "BlockStatement", statements |-> ss]
LetStatement(n, v) == [kind |-> "LetStatement", name |-> n, value |-> v]
VarStatement(n, v) == [kind |-> "VarStatement", name |-> n, value |-> v]
FunctionDecl(n, ps, ss) ==
    [kind |-> "FunctionDecl", name |-> n, params |-> ps,
     body |-> BlockStatement(ss)]
MethodDecl(n, ps, ss) ==
    [name |-> n, params |-> ps, body |-> BlockStatement(ss)]
ClassDecl(n, ps, ms) ==
    [kind |-> "ClassDecl", name |-> n, params |-> ps,
     body |-> [methods |-> ms]]
DataDecl(n, fs) == [kind |-> "DataDecl", name |-> n, fields |-> fs]
\* elseBranch: a block, a nested IfStatement, or absent (hasElse = FALSE)
IfStatement(c, t, hasElse, e) ==
    [kind |-> "IfStatement", condition |-> c, thenBranch |-> BlockStatement(t),
     hasElse |-> hasElse, elseBranch |-> e]
WhileStatement(c, ss) ==
    [kind |-> "WhileStatement", condition |-> c, body |-> BlockStatement(ss)]
ForStatement(v, it, ss) ==
    [kind |-> "ForStatement", variable |-> v, iterable |-> it,
     body |-> BlockStatement(ss)]
MatchArm(p, hasGuard, g, b) ==
    [pattern |-> p, hasGuard |-> hasGuard, guard |-> g, body |-> b]
MatchStatement(s, arms) ==
    [kind |-> "MatchStatement", subject |-> s, arms |-> arms]
ReturnStatement(hasValue, v) ==
    [kind |-> "ReturnStatement", hasValue |-> hasValue, value |-> v]
BreakStatement == [kind |-> "BreakStatement"]
ContinueStatement == [kind |-> "ContinueStatement"]
ExpressionStatement(e) == [kind |-> "ExpressionStatement", expression |-> e]
Program(stmts) == [kind |-> "Program", body |-> stmts]

WildcardPattern == [kind |-> "WildcardPattern"]
LiteralPattern(l) == [kind |-> "LiteralPattern", value |-> l]
IdentifierPattern(n) == [kind |-> "IdentifierPattern", name |-> n]
RangePattern(s, e) == [kind |-> "RangePattern", start |-> s, end |-> e]
ConstructorPattern(n) == [kind |-> "ConstructorPattern", name |-> n]

\* ------------------------------------------------------------------------
\* compiler.ts: the compiler state
\* ------------------------------------------------------------------------
\* scopes is the chain this.scope, this.scope.parent, ... listed from the
\* root (position 1) to this.scope (last).  Scope.upvalues is one Map per
\* function context, shared by the block scopes of that function
\* (pushScope copies the reference), so it is kept per nesting depth:
\* upmaps[d + 1] is the Map of the scopes whose depth is d.
\* fnHeap / classHeap hold the CompiledFunction / ClassDef objects in order
\* of creation; values and module.functions name them by position.
\* globalRefs is a history of the global instructions emitted.
NewCompiler ==
    [constants |-> <<>>, globals |-> <<>>, globalSet |-> {},
     functions |-> <<>>, currentCode |-> <<>>,
     scopes |-> <<[locals |-> EmptyMap, depth |-> 0]>>,
     upmaps |-> <<EmptyMap>>,
     localCount |-> 0, upvalues |-> <<>>, functionDepth |-> 0,
     fnHeap |-> <<>>, classHeap |-> <<>>, globalRefs |-> <<>>,
     error |-> ""]

\* const x = v; followed by the statements F that use x: v is evaluated
\* first, and once
Bind(v, F(_)) == CHOOSE out \in {F(x) : x \in {v}} : TRUE

emit(cs, op, arg) ==
    [cs EXCEPT !.currentCode = Append(@, Instr(op, arg))]

\* emit of LOAD_GLOBAL / STORE_GLOBAL.  globalRefs records, for each such
\* instruction emitted, the name it was emitted for and its operand.
emitGlobal(cs, op, name, idx) ==
    [emit(cs, op, idx) EXCEPT
        !.globalRefs = Append(@, [name |-> name, slot |-> idx])]

valuesEqual(a, b) ==
    IF a.type # b.type THEN FALSE
    ELSE IF a.type = "none" THEN TRUE
    ELSE a.value = b.value

\* addConstant returning what constants.push() returns, the new length
addConstantPushResult(cs, value) ==
    IF \E i \in 1..Len(cs.constants) : valuesEqual(cs.constants[i], value)
    THEN [cs |-> cs,
          idx |-> (CHOOSE i \in 1..Len(cs.constants) :
                      /\ valuesEqual(cs.constants[i], value)
                      /\ \A j \in 1..(i - 1) :
                            ~valuesEqual(cs.constants[j], value)) - 1]
    ELSE [cs |-> [cs EXCEPT !.constants = Append(@, value)],
          idx |-> Len(cs.constants) + 1]

addConstant(cs, value) ==
    IF \E i \in 1..Len(cs.constants) : valuesEqual(cs.constants[i], value)
    THEN [cs |-> cs,
          idx |-> (CHOOSE i \in 1..Len(cs.constants) :
                      /\ valuesEqual(cs.constants[i], value)
                      /\ \A j \in 1..(i - 1) :
                            ~valuesEqual(cs.constants[j], value)) - 1]
    ELSE [cs |-> [cs EXCEPT !.constants = Append(@, value)],
          idx |-> Len(cs.constants)]

emitConstant(cs, value) ==
    LET r == addConstant(cs, value)
    IN emit(r.cs, "LOAD_CONST", r.idx)

\* addGlobal without the look-up in globalSet
addGlobalNoDedup(cs, name) ==
    [cs |-> [cs EXCEPT !.globals = Append(@, name),
                       !.globalSet = @ \cup {name}],
     idx |-> Len(cs.globals)]

addGlobal(cs, name) ==
    IF name \in cs.globalSet
    THEN [cs |-> cs, idx |-> IndexOf(cs.globals, name)]
    ELSE [cs |-> [cs EXCEPT !.globals = Append(@, name),
                            !.globalSet = @ \cup {name}],
          idx |-> Len(cs.globals)]

\* returns the index of the emitted jump
emitJump(cs, op) ==
    LET c == emit(cs, op, 0)
    IN [cs |-> c, idx |-> Len(c.currentCode) - 1]

\* patchJump writing the index after the next instruction
patchJumpPastNext(cs, idx) ==
    [cs EXCEPT !.currentCode[idx + 1].arg = Len(cs.currentCode) + 1]

patchJump(cs, idx) ==
    [cs EXCEPT !.currentCode[idx + 1].arg = Len(cs.currentCode)]

emitLoop(cs, loopStart) == emit(cs, "JUMP", loopStart)

pushScope(cs) ==
    [cs EXCEPT !.scopes =
        Append(@, [locals |-> EmptyMap, depth |-> cs.scopes[Len(cs.scopes)].depth])]

popScope(cs) ==
    IF Len(cs.scopes) > 1
    THEN [cs EXCEPT !.scopes = SubSeq(@, 1, Len(@) - 1)]
    ELSE cs

addLocal(cs, name) ==
    [cs |-> [cs EXCEPT !.localCount = @ + 1,
                       !.scopes[Len(cs.scopes)].locals =
                           MapSet(@, name, [index |-> cs.localCount,
                                            isCaptured |-> FALSE])],
     idx |-> cs.localCount]

\* The Map scope.upvalues of the scope at position j of the chain
ScopeUpvalues(cs, j) == cs.upmaps[cs.scopes[j].depth + 1]

captureUpvalue(cs, name, outerScope) ==
    LET hits == {j \in 1..outerScope :
                    \/ MapHas(cs.scopes[j].locals, name)
                    \/ MapHas(ScopeUpvalues(cs, j), name)}
        top == Len(cs.scopes)
        upvalueIdx == Len(cs.upvalues)
    IN IF hits = {} THEN [cs |-> cs, found |-> FALSE, idx |-> -1]
       ELSE LET j == SetMax(hits)
                isLoc == MapHas(cs.scopes[j].locals, name)
                info == [index |-> upvalueIdx,
                         isLocal |-> isLoc,
                         parentIndex |->
                             IF isLoc THEN cs.scopes[j].locals[name].index
                             ELSE ScopeUpvalues(cs, j)[name].index]
                c1 == IF isLoc
                      THEN [cs EXCEPT !.scopes[j].locals[name].isCaptured = TRUE]
                      ELSE cs
                c2 == [c1 EXCEPT !.upvalues = Append(@, info),
                                 !.upmaps[c1.scopes[top].depth + 1] =
                                     MapSet(@, name, info)]
            IN [cs |-> c2, found |-> TRUE, idx |-> upvalueIdx]

resolveVariable(cs, name) ==
    LET top == Len(cs.scopes)
        \* scopes the while loop visits: the top run of depth = functionDepth
        own == {j \in 1..top :
                   \A k \in j..top : cs.scopes[k].depth = cs.functionDepth}
        localHits == {j \in own : MapHas(cs.scopes[j].locals, name)}
        \* the scope the loop stops at (0: it ran off the root)
        outer == SetMax({0} \cup ((1..top) \ own))
    IN IF localHits # {}
       THEN [cs |-> cs, type |-> "local",
             index |-> cs.scopes[SetMax(localHits)].locals[name].index]
       ELSE IF MapHas(ScopeUpvalues(cs, top), name)
       THEN [cs |-> cs, type |-> "upvalue",
             index |-> ScopeUpvalues(cs, top)[name].index]
       ELSE LET cap == IF outer > 0 /\ cs.functionDepth > 0
                       THEN captureUpvalue(cs, name, outer)
                       ELSE [cs |-> cs, found |-> FALSE, idx |-> -1]
            IN IF cap.found
               THEN [cs |-> cap.cs, type |-> "upvalue", index |-> cap.idx]
               ELSE IF IndexOf(cs.globals, name) = -1
               THEN LET g == addGlobal(cs, name)
                    IN [cs |-> g.cs, type |-> "global", index |-> g.idx]
               ELSE [cs |-> cs, type |-> "global",
                     index |-> IndexOf(cs.globals, name)]

\* ------------------------------------------------------------------------
\* compiler.ts: statements and expressions
\* ------------------------------------------------------------------------
\* compileStatement and compileExpression dispatch on the node kind to the
\* compile* method of that kind, which recurses into them.
RECURSIVE compileStatement(_, _)
RECURSIVE compileExpression(_, _)

\* for (const p of params) this.addLocal(p.name)
addParams(cs, params) ==
    LET F[i \in 0..Len(params)] ==
            IF i = 0 THEN cs ELSE addLocal(F[i - 1], params[i].name).cs
    IN F[Len(params)]

\* for (const s of statements) this.compileStatement(s)
\* (a throw ends the compilation: the remaining statements are skipped)
compileStatements(cs, stmts) ==
    LET F[i \in 0..Len(stmts)] ==
            IF i = 0 THEN cs
            ELSE LET c == F[i - 1]
                 IN IF c.error # "" THEN c ELSE compileStatement(c, stmts[i])
    IN F[Len(stmts)]

\* for (const e of exprs) this.compileExpression(e)
compileExpressions(cs, exprs) ==
    LET F[i \in 0..Len(exprs)] ==
            IF i = 0 THEN cs
            ELSE LET c == F[i - 1]
                 IN IF c.error # "" THEN c ELSE compileExpression(c, exprs[i])
    IN F[Len(exprs)]

compileLiteral(cs, lit) ==
    CASE lit.type = "integer" -> emitConstant(cs, ValInt(lit.value))
      [] lit.type = "float" -> emitConstant(cs, ValFloat(lit.value))
      [] lit.type = "string" -> emitConstant(cs, ValString(lit.value))
      [] lit.type = "boolean" -> emitConstant(cs, ValBool(lit.value))
      [] lit.type = "none" -> emitConstant(cs, ValNone)
      [] OTHER -> cs

compileIdentifier(cs, id) ==
    Bind(resolveVariable(cs, id.name), LAMBDA r :
        CASE r.type = "local" -> emit(r.cs, "LOAD_VAR", r.index)
          [] r.type = "upvalue" -> emit(r.cs, "LOAD_UPVALUE", r.index)
          [] r.type = "global" ->
                emitGlobal(r.cs, "LOAD_GLOBAL", id.name, r.index))

BinaryOpcode(operator) ==
    CASE operator = "+" -> "ADD"
      [] operator = "-" -> "SUB"
      [] operator = "*" -> "MUL"
      [] operator = "/" -> "DIV"
      [] operator = "%" -> "MOD"
      [] operator = "**" -> "POW"
      [] operator = "==" -> "EQ"
      [] operator = "!=" -> "NE"
      [] operator = "<" -> "LT"
      [] operator = ">" -> "GT"
      [] operator = "<=" -> "LE"
      [] operator = ">=" -> "GE"
      [] operator = "&&" -> "AND"
      [] operator = "||" -> "OR"
      [] OTHER -> "?"

compileBinaryExpr(cs, expr) ==
    Bind(compileExpression(compileExpression(cs, expr.left), expr.right),
            LAMBDA c2 :
        IF BinaryOpcode(expr.operator) = "?"
        THEN [c2 EXCEPT !.error = "Unknown operator"]
        ELSE emit(c2, BinaryOpcode(expr.operator), NoArg))

compileUnaryExpr(cs, expr) ==
    Bind(compileExpression(cs, expr.operand), LAMBDA c1 :
        CASE expr.operator = "-" -> emit(c1, "NEG", NoArg)
          [] expr.operator \in {"!", "not"} -> emit(c1, "NOT", NoArg)
          [] OTHER -> [c1 EXCEPT !.error = "Unknown unary operator"])

compileCallExpr(cs, expr) ==
    IF expr.callee.kind = "Identifier" /\ expr.callee.name = "__print__"
    THEN emitConstant(emit(compileExpressions(cs, expr.args),
                           "PRINT", Len(expr.args)),
                      ValNone)
    ELSE emit(compileExpression(compileExpressions(cs, expr.args),
            expr.callee),
              "CALL", Len(expr.args))

compileMemberExpr(cs, expr) ==
    Bind(addConstant(compileExpression(cs, expr.object),
            ValString(expr.property)),
         LAMBDA r : emit(r.cs, "GET_ATTR", r.idx))

compileIndexExpr(cs, expr) ==
    emit(compileExpression(compileExpression(cs, expr.object), expr.index),
            "GET_INDEX", NoArg)

compileListExpr(cs, expr) ==
    emit(compileExpressions(cs, expr.elements),
         "MAKE_LIST", Len(expr.elements))

\* Entering a nested function context: fresh code, locals, upvalues, scope
EnterFunction(cs) ==
    [cs EXCEPT !.currentCode = <<>>,
               !.localCount = 0,
               !.upvalues = <<>>,
               !.functionDepth = @ + 1,
               !.scopes = Append(@, [locals |-> EmptyMap,
                                     depth |-> cs.functionDepth + 1]),
               !.upmaps = Append(@, EmptyMap)]

\* Restoring the saved context (saved is the state at entry); the scope
\* objects of the enclosing chain keep what the nested compile wrote to them
LeaveFunction(cs, saved) ==
    [cs EXCEPT !.currentCode = saved.currentCode,
               !.scopes = SubSeq(@, 1, Len(saved.scopes)),
               !.upmaps = SubSeq(@, 1, Len(saved.upmaps)),
               !.localCount = saved.localCount,
               !.upvalues = saved.upvalues,
               !.functionDepth = saved.functionDepth]

upvalueDescriptors(cs) ==
    [i \in 1..Len(cs.upvalues) |->
        [isLocal |-> cs.upvalues[i].isLocal,
         index |-> cs.upvalues[i].parentIndex]]

\* The CompiledFunction built from the nested context c
CompiledFunction(c, name, arity) ==
    [name |-> name,
     arity |-> arity,
     localCount |-> c.localCount,
     upvalueCount |-> Len(c.upvalues),
     upvalues |-> upvalueDescriptors(c),
     code |-> c.currentCode]

compileFunctionDecl(cs, decl) ==
    Bind(emit(emitConstant(
                  compileStatements(addParams(EnterFunction(cs), decl.params),
                                    decl.body.statements),
                  ValNone),
              "RETURN", NoArg), LAMBDA c3 :
    Bind(CompiledFunction(c3, decl.name, Len(decl.params)), LAMBDA fn :
    Bind(addGlobal(
             LeaveFunction([c3 EXCEPT !.fnHeap = Append(@, fn),
                                      !.functions =
                                          Append(@, Len(c3.fnHeap) + 1)],
                           cs),
             decl.name), LAMBDA g :
    Bind(emitConstant(g.cs, ValFunction(Len(c3.fnHeap) + 1)), LAMBDA c5 :
        emitGlobal(IF fn.upvalueCount > 0
                   THEN emit(c5, "MAKE_CLOSURE", fn.upvalueCount)
                   ELSE c5,
                   "STORE_GLOBAL", decl.name, g.idx)))))

compileLambdaExpr(cs, expr) ==
    Bind(emit(IF expr.body.kind = "BlockStatement"
              THEN emitConstant(
                       compileStatements(
                           addParams(EnterFunction(cs), expr.params),
                           expr.body.statements),
                       ValNone)
              ELSE compileExpression(addParams(EnterFunction(cs),
                      expr.params), expr.body),
              "RETURN", NoArg), LAMBDA c3 :
    Bind(CompiledFunction(c3, "<lambda>", Len(expr.params)), LAMBDA fn :
    Bind(emitConstant(
             [LeaveFunction([c3 EXCEPT !.fnHeap = Append(@, fn)], cs)
                 EXCEPT !.functions = Append(@, Len(c3.fnHeap) + 1)],
             ValFunction(Len(c3.fnHeap) + 1)), LAMBDA c6 :
        IF fn.upvalueCount > 0
        THEN emit(c6, "MAKE_CLOSURE", fn.upvalueCount)
        ELSE c6)))

\* The method's nested context at its first statement: self (and its
\* Ukrainian spelling, written "sebe" here) is slot 0, then the parameters
MethodContext(cs, method) ==
    Bind(addLocal(EnterFunction(cs), "self"), LAMBDA s :
        addParams([s.cs EXCEPT !.scopes[Len(s.cs.scopes)].locals =
                       MapSet(@, "sebe", [index |-> s.idx,
                                          isCaptured |-> FALSE])],
                  method.params))

\* One turn of the loop over decl.body.methods; r.methods is the Map so far
compileMethod(r, method) ==
    Bind(emit(emitConstant(
                  compileStatements(MethodContext(r.cs, method),
                                    method.body.statements),
                  ValNone),
              "RETURN", NoArg), LAMBDA c4 :
        [cs |-> LeaveFunction(
                    [c4 EXCEPT !.fnHeap =
                        Append(@, [name |-> method.name,
                                   arity |-> Len(method.params) + 1,
                                   localCount |-> c4.localCount,
                                   upvalueCount |-> 0,
                                   upvalues |-> <<>>,
                                   code |-> c4.currentCode])],
                    r.cs),
         methods |-> MapSet(r.methods, method.name, Len(c4.fnHeap) + 1)])

\* for (const method of decl.body.methods) ...
compileMethods(cs, ms) ==
    LET F[i \in 0..Len(ms)] ==
            IF i = 0 THEN [cs |-> cs, methods |-> EmptyMap]
            ELSE compileMethod(F[i - 1], ms[i])
    IN F[Len(ms)]

\* The ClassDef is stored in the heap, entered as a global and loaded
DeclareClass(cs, classDef) ==
    Bind(addGlobal([cs EXCEPT !.classHeap = Append(@, classDef)],
                   classDef.name), LAMBDA g :
        emitGlobal(emitConstant(g.cs, ValClass(Len(cs.classHeap) + 1)),
                   "STORE_GLOBAL", classDef.name, g.idx))

compileClassDecl(cs, decl) ==
    Bind(compileMethods(cs, decl.body.methods), LAMBDA m :
        DeclareClass(m.cs,
            [name |-> decl.name,
             fields |-> [i \in 1..Len(decl.params) |-> decl.params[i].name],
             methods |-> m.methods]))

compileDataDecl(cs, decl) ==
    DeclareClass(cs,
        [name |-> decl.name,
         fields |-> [i \in 1..Len(decl.fields) |-> decl.fields[i].name],
         methods |-> EmptyMap])

compilePipeExpr(cs, expr) ==
    emit(compileExpression(compileExpression(cs, expr.left), expr.right),
            "CALL", 1)

compileNewExpr(cs, expr) ==
    Bind(compileExpressions(cs, expr.args), LAMBDA c1 :
        emit(IF IndexOf(c1.globals, expr.className) = -1
             THEN Bind(addGlobal(c1, expr.className), LAMBDA g :
                      emitGlobal(g.cs, "LOAD_GLOBAL", expr.className, g.idx))
             ELSE emitGlobal(c1, "LOAD_GLOBAL", expr.className,
                             IndexOf(c1.globals, expr.className)),
             "NEW_INSTANCE", Len(expr.args)))

\* compileAssignExpr without the DUP: the store consumes the only copy
compileAssignExprNoDup(cs, expr) ==
    Bind(compileExpression(cs, expr.value), LAMBDA c1 :
        CASE expr.target.kind = "Identifier" ->
              Bind(resolveVariable(c1, expr.target.name), LAMBDA r :
                  CASE r.type = "local" -> emit(r.cs, "STORE_VAR", r.index)
                    [] r.type = "upvalue" ->
                          emit(r.cs, "STORE_UPVALUE", r.index)
                    [] r.type = "global" ->
                          emitGlobal(r.cs, "STORE_GLOBAL",
                                     expr.target.name, r.index))
          [] expr.target.kind = "MemberExpr" ->
              Bind(addConstant(compileExpression(c1, expr.target.object),
                               ValString(expr.target.property)), LAMBDA k :
                  emit(k.cs, "SET_ATTR", k.idx))
          [] expr.target.kind = "IndexExpr" ->
              emit(compileExpression(compileExpression(c1,
                      expr.target.object), expr.target.index),
                   "SET_INDEX", NoArg)
          [] OTHER -> c1)

compileAssignExpr(cs, expr) ==
    Bind(emit(compileExpression(cs, expr.value), "DUP", NoArg), LAMBDA c1 :
        CASE expr.target.kind = "Identifier" ->
              Bind(resolveVariable(c1, expr.target.name), LAMBDA r :
                  CASE r.type = "local" -> emit(r.cs, "STORE_VAR", r.index)
                    [] r.type = "upvalue" ->
                          emit(r.cs, "STORE_UPVALUE", r.index)
                    [] r.type = "global" ->
                          emitGlobal(r.cs, "STORE_GLOBAL",
                                     expr.target.name, r.index))
          [] expr.target.kind = "MemberExpr" ->
              Bind(addConstant(compileExpression(c1, expr.target.object),
                               ValString(expr.target.property)), LAMBDA k :
                  emit(k.cs, "SET_ATTR", k.idx))
          [] expr.target.kind = "IndexExpr" ->
              emit(compileExpression(compileExpression(c1,
                      expr.target.object), expr.target.index),
                   "SET_INDEX", NoArg)
          [] OTHER -> c1)

\* the switch of compileExpression
ExpressionSwitch(cs, expr) ==
    CASE expr.kind = "Literal" -> compileLiteral(cs, expr)
      [] expr.kind = "Identifier" -> compileIdentifier(cs, expr)
      [] expr.kind = "BinaryExpr" -> compileBinaryExpr(cs, expr)
      [] expr.kind = "UnaryExpr" -> compileUnaryExpr(cs, expr)
      [] expr.kind = "CallExpr" -> compileCallExpr(cs, expr)
      [] expr.kind = "MemberExpr" -> compileMemberExpr(cs, expr)
      [] expr.kind = "IndexExpr" -> compileIndexExpr(cs, expr)
      [] expr.kind = "ListExpr" -> compileListExpr(cs, expr)
      [] expr.kind = "LambdaExpr" -> compileLambdaExpr(cs, expr)
      [] expr.kind = "PipeExpr" -> compilePipeExpr(cs, expr)
      [] expr.kind = "NewExpr" -> compileNewExpr(cs, expr)
      [] expr.kind = "AssignExpr" -> compileAssignExpr(cs, expr)
      [] OTHER -> [cs EXCEPT !.error = "Unknown expression kind"]

\* if (this.scope.parent) a local, else a global; c1 has the value compiled
DeclareVariable(c1, name) ==
    IF Len(c1.scopes) > 1
    THEN Bind(addLocal(c1, name), LAMBDA l :
             emit(l.cs, "STORE_VAR", l.idx))
    ELSE Bind(addGlobal(c1, name), LAMBDA g :
             emitGlobal(g.cs, "STORE_GLOBAL", name, g.idx))

\* compileLetStatement with a copy of the value left under the store
compileLetStatementValueLeft(cs, stmt) ==
    DeclareVariable(emit(compileExpression(cs, stmt.value), "DUP", NoArg),
                    stmt.name)

compileLetStatement(cs, stmt) ==
    DeclareVariable(compileExpression(cs, stmt.value), stmt.name)

compileVarStatement(cs, stmt) ==
    DeclareVariable(compileExpression(cs, stmt.value), stmt.name)

\* pushScope(); the statements; popScope()
compileBlock(cs, statements) ==
    popScope(compileStatements(pushScope(cs), statements))

compileIfStatement(cs, stmt) ==
    Bind(emitJump(compileExpression(cs, stmt.condition), "JUMP_IF_FALSE"),
         LAMBDA jumpToElse :
    Bind(compileBlock(jumpToElse.cs, stmt.thenBranch.statements),
         LAMBDA c2 :
        IF stmt.hasElse
        THEN Bind(emitJump(c2, "JUMP"), LAMBDA jumpOverElse :
                 patchJump(
                     IF stmt.elseBranch.kind = "IfStatement"
                     \* this.compileIfStatement(stmt.elseBranch), which is
                     \* what compileStatement does with an IfStatement
                     THEN compileStatement(patchJump(jumpOverElse.cs,
                             jumpToElse.idx),
                            stmt.elseBranch)
                     ELSE compileBlock(
                              patchJump(jumpOverElse.cs, jumpToElse.idx),
                              stmt.elseBranch.statements),
                     jumpOverElse.idx))
        ELSE patchJump(c2, jumpToElse.idx)))

compileWhileStatement(cs, stmt) ==
    Bind(emitJump(compileExpression(cs, stmt.condition), "JUMP_IF_FALSE"),
            LAMBDA exitJump :
        patchJump(emitLoop(compileBlock(exitJump.cs, stmt.body.statements),
                           Len(cs.currentCode)),
                  exitJump.idx))

compileForStatement(cs, stmt) ==
    Bind(addLocal(compileExpression(cs, stmt.iterable), "__iter__"),
            LAMBDA it :
    Bind(emit(emitConstant(it.cs, ValInt(0)), "STORE_VAR", it.idx),
         LAMBDA c2 :
    Bind(emitJump(c2, "JUMP_IF_FALSE"), LAMBDA exitJump :
        patchJump(
            emitLoop(
                popScope(compileStatements(
                    addLocal(pushScope(exitJump.cs), stmt.variable).cs,
                    stmt.body.statements)),
                Len(c2.currentCode)),
            exitJump.idx))))

compilePattern(cs, pattern) ==
    CASE pattern.kind = "WildcardPattern" -> emitConstant(cs, ValBool(TRUE))
      [] pattern.kind = "LiteralPattern" ->
            emit(compileLiteral(cs, pattern.value), "EQ", NoArg)
      [] pattern.kind = "IdentifierPattern" ->
            Bind(addLocal(cs, pattern.name), LAMBDA l :
                emitConstant(
                    emit(emit(l.cs, "DUP", NoArg), "STORE_VAR", l.idx),
                    ValBool(TRUE)))
      [] pattern.kind = "RangePattern" ->
            emit(compileExpression(emit(cs, "DUP", NoArg), pattern.start),
                    "GE", NoArg)
      [] pattern.kind = "ConstructorPattern" ->
            emitConstant(cs, ValBool(TRUE))
      [] OTHER -> cs

\* One turn of the loop over stmt.arms; r.endJumps collects the jumps to
\* the shared end
compileArm(r, arm) ==
    Bind(emitJump(compilePattern(emit(r.cs, "DUP", NoArg), arm.pattern),
                  "JUMP_IF_FALSE"), LAMBDA skipArm :
        IF arm.hasGuard
        THEN Bind(emitJump(compileExpression(skipArm.cs, arm.guard),
                "JUMP_IF_FALSE"),
                  LAMBDA skipGuard :
             Bind(emitJump(compileExpression(skipGuard.cs, arm.body),
                     "JUMP"), LAMBDA end :
                 [cs |-> patchJump(patchJump(end.cs, skipGuard.idx),
                                   skipArm.idx),
                  endJumps |-> Append(r.endJumps, end.idx)]))
        ELSE Bind(emitJump(compileExpression(skipArm.cs, arm.body), "JUMP"),
                LAMBDA end :
                 [cs |-> patchJump(end.cs, skipArm.idx),
                  endJumps |-> Append(r.endJumps, end.idx)]))

\* for (const arm of stmt.arms) ...
compileArms(cs, arms) ==
    LET F[i \in 0..Len(arms)] ==
            IF i = 0 THEN [cs |-> cs, endJumps |-> <<>>]
            ELSE compileArm(F[i - 1], arms[i])
    IN F[Len(arms)]

\* for (const jump of endJumps) this.patchJump(jump)
patchJumps(cs, jumps) ==
    LET F[i \in 0..Len(jumps)] ==
            IF i = 0 THEN cs ELSE patchJump(F[i - 1], jumps[i])
    IN F[Len(jumps)]

compileMatchStatement(cs, stmt) ==
    Bind(compileArms(compileExpression(cs, stmt.subject), stmt.arms),
            LAMBDA a :
        emit(patchJumps(emitConstant(a.cs, ValNone), a.endJumps),
             "POP", NoArg))

compileReturnStatement(cs, stmt) ==
    emit(IF stmt.hasValue THEN compileExpression(cs, stmt.value)
         ELSE emitConstant(cs, ValNone),
         "RETURN", NoArg)

\* the switch of compileStatement
StatementSwitch(cs, stmt) ==
    CASE stmt.kind = "LetStatement" -> compileLetStatement(cs, stmt)
      [] stmt.kind = "VarStatement" -> compileVarStatement(cs, stmt)
      [] stmt.kind = "FunctionDecl" -> compileFunctionDecl(cs, stmt)
      [] stmt.kind = "ClassDecl" -> compileClassDecl(cs, stmt)
      [] stmt.kind = "DataDecl" -> compileDataDecl(cs, stmt)
      [] stmt.kind = "IfStatement" -> compileIfStatement(cs, stmt)
      [] stmt.kind = "WhileStatement" -> compileWhileStatement(cs, stmt)
      [] stmt.kind = "ForStatement" -> compileForStatement(cs, stmt)
      [] stmt.kind = "MatchStatement" -> compileMatchStatement(cs, stmt)
      [] stmt.kind = "ReturnStatement" -> compileReturnStatement(cs, stmt)
      [] stmt.kind = "BreakStatement" -> cs
      [] stmt.kind = "ContinueStatement" -> cs
      [] stmt.kind = "ExpressionStatement" ->
            emit(compileExpression(cs, stmt.expression), "POP", NoArg)
      [] stmt.kind = "BlockStatement" ->
            compileBlock(cs, stmt.statements)
      [] OTHER -> cs

compileExpression(cs, expr) ==
    ExpressionSwitch(cs, expr)

compileStatement(cs, stmt) ==
    StatementSwitch(cs, stmt)

\* The CompiledModule, with the object heaps its values name
CompiledModule(cs) ==
    [constants |-> cs.constants,
     globals |-> cs.globals,
     functions |-> cs.functions,
     mainCode |-> cs.currentCode,
     fnHeap |-> cs.fnHeap,
     classHeap |-> cs.classHeap,
     globalRefs |-> cs.globalRefs,
     error |-> cs.error]

\* Compiler.compile
compile(program) ==
    CompiledModule(emit(compileStatements(NewCompiler, program.body),
                        "HALT", NoArg))

\* ------------------------------------------------------------------------
\* serializer.ts: a CompiledModule written as the bytes of a .uasb file
\* ------------------------------------------------------------------------
\* The buffer is a sequence of cells.  A cell is one byte,
\* [k |-> "u8", v |-> 0..255], or the bytes of one value the files never
\* split: the eight bytes of a double, [k |-> "f64", v |-> number], and the
\* UTF-8 bytes of a string, [k |-> "utf8", v |-> string].
TAG_NONE == 0
TAG_INT == 1
TAG_FLOAT == 2
TAG_STRING == 3
TAG_BOOL == 4
TAG_FUNCTION == 5
TAG_CLASS == 6

\* enum OpCode
OpCodes ==
    [LOAD_CONST |-> 1, LOAD_VAR |-> 2, STORE_VAR |-> 3, LOAD_GLOBAL |-> 4,
     STORE_GLOBAL |-> 5, POP |-> 6, DUP |-> 7,
     ADD |-> 16, SUB |-> 17, MUL |-> 18, DIV |-> 19, MOD |-> 20, POW |-> 21,
     NEG |-> 22,
     EQ |-> 32, NE |-> 33, LT |-> 34, GT |-> 35, LE |-> 36, GE |-> 37,
     AND |-> 48, OR |-> 49, NOT |-> 50,
     JUMP |-> 64, JUMP_IF_FALSE |-> 65, JUMP_IF_TRUE |-> 66,
     CALL |-> 80, RETURN |-> 81, MAKE_FUNCTION |-> 82, MAKE_CLOSURE |-> 83,
     LOAD_UPVALUE |-> 84, STORE_UPVALUE |-> 85,
     MAKE_LIST |-> 96, MAKE_MAP |-> 97, GET_INDEX |-> 98, SET_INDEX |-> 99,
     GET_ATTR |-> 100, SET_ATTR |-> 101, MAKE_CLASS |-> 102,
     NEW_INSTANCE |-> 103,
     MATCH_VALUE |-> 112, MATCH_TYPE |-> 113, MATCH_RANGE |-> 114,
     PRINT |-> 128, NOP |-> 0, HALT |-> 255]

\* The member of the enum with the given number; a byte that numbers none
\* stays a number no case of the VM's switch selects
OpName(byte) ==
    IF \E n \in DOMAIN OpCodes : OpCodes[n] = byte
    THEN CHOOSE n \in DOMAIN OpCodes : OpCodes[n] = byte
    ELSE "UNKNOWN"

U8(v) == [k |-> "u8", v |-> v]

NewSerializer == [buf |-> <<>>, error |-> ""]

writeByte(w, val) == [w EXCEPT !.buf = Append(@, U8(val))]

writeUInt16(w, val) ==
    [w EXCEPT !.buf = @ \o <<U8(val % 256), U8((val \div 256) % 256)>>]

writeUInt32(w, val) ==
    [w EXCEPT !.buf = @ \o <<U8(val % 256), U8((val \div 256) % 256),
                             U8((val \div 65536) % 256),
                             U8((val \div 16777216) % 256)>>]

writeDouble(w, val) == [w EXCEPT !.buf = Append(@, [k |-> "f64", v |-> val])]

writeString(w, str) ==
    [writeUInt32(w, Len(str)) EXCEPT
        !.buf = Append(@, [k |-> "utf8", v |-> str])]

\* Every operand written as 0
writeInstructionOperandless(w, inst) ==
    writeUInt32(writeByte(w, OpCodes[inst.op]), 0)

\* this.writeByte(inst.op); this.writeUInt32(inst.arg ?? 0)
writeInstruction(w, inst) ==
    writeUInt32(writeByte(w, OpCodes[inst.op]),
                IF inst.arg = NoArg THEN 0 ELSE inst.arg)

\* for (const x of items) { write x }: the loops of the serializer, by the
\* kind of thing the items are; m is the module that holds the objects
RECURSIVE writeEach(_, _, _, _)

\* fn is the CompiledFunction object
writeFunction(w, m, fn) ==
    writeEach(
        writeUInt32(
            writeEach(
                writeUInt32(
                    writeUInt32(
                        writeUInt32(writeString(w, fn.name), fn.arity),
                        fn.localCount),
                    Len(fn.upvalues)),
                m, "upvalue", fn.upvalues),
            Len(fn.code)),
        m, "instruction", fn.code)

\* The entries of a Map of methods in insertion order (the order in which
\* the method objects were created)
MethodEntries(methods) ==
    LET F[S \in SUBSET DOMAIN methods] ==
            IF S = {} THEN <<>>
            ELSE LET n == CHOOSE x \in S : \A y \in S : methods[x] <= methods[y]
                 IN <<[name |-> n, fn |-> methods[n]]>> \o F[S \ {n}]
    IN F[DOMAIN methods]

\* case 'class' of writeValue; cls is the ClassDef object
writeClass(w, m, cls) ==
    writeEach(
        writeUInt32(
            writeEach(
                writeUInt32(writeString(writeByte(w, TAG_CLASS), cls.name),
                            Len(cls.fields)),
                m, "string", cls.fields),
            Len(MethodEntries(cls.methods))),
        m, "method", MethodEntries(cls.methods))

writeValue(w, m, val) ==
    CASE val.type = "none" -> writeByte(w, TAG_NONE)
      [] val.type = "int" -> writeDouble(writeByte(w, TAG_INT), val.value)
      [] val.type = "float" -> writeDouble(writeByte(w, TAG_FLOAT), val.value)
      [] val.type = "string" -> writeString(writeByte(w, TAG_STRING), val.value)
      [] val.type = "bool" ->
            writeByte(writeByte(w, TAG_BOOL), IF val.value THEN 1 ELSE 0)
      [] val.type = "function" ->
            IF val.native
            THEN [w EXCEPT !.error =
                     "Builtin functions cannot be serialized in constant pool"]
            ELSE writeFunction(writeByte(w, TAG_FUNCTION), m,
                               m.fnHeap[val.value])
      [] val.type = "class" -> writeClass(w, m, m.classHeap[val.value])
      [] OTHER -> [w EXCEPT !.error = "Unsupported constant type"]

\* The body of one of the loops
writeItem(w, m, kind, item) ==
    CASE kind = "instruction" -> writeInstruction(w, item)
      [] kind = "upvalue" ->
            writeUInt32(writeByte(w, IF item.isLocal THEN 1 ELSE 0),
                        item.index)
      [] kind = "string" -> writeString(w, item)
      [] kind = "value" -> writeValue(w, m, item)
      [] kind = "function" -> writeFunction(w, m, m.fnHeap[item])
      [] kind = "method" ->
            writeFunction(writeString(w, item.name), m, m.fnHeap[item.fn])

writeEach(w, m, kind, items) ==
    IF Len(items) = 0 THEN w
    ELSE IF Len(items) = 1 THEN writeItem(w, m, kind, items[1])
    ELSE Bind(writeEach(w, m, kind, SubSeq(items, 1, Len(items) \div 2)),
              LAMBDA half :
                  writeEach(half, m, kind,
                            SubSeq(items, Len(items) \div 2 + 1, Len(items))))

\* Serializer.serialize; a throw of writeValue leaves no buffer
serialize(m) ==
    Bind(writeEach(
             writeUInt32(
                 writeEach(
                     writeUInt32(
                         writeEach(
                             writeUInt32(
                                 writeEach(
                                     writeUInt32(
                                         writeUInt16(
                                             writeString(NewSerializer,
                                                         "UABC"),
                                             1),
                                         Len(m.constants)),
                                     m, "value", m.constants),
                                 Len(m.globals)),
                             m, "string", m.globals),
                         Len(m.functions)),
                     m, "function", m.functions),
                 Len(m.mainCode)),
             m, "instruction", m.mainCode),
         LAMBDA w : IF w.error # "" THEN [buf |-> <<>>, error |-> w.error]
                    ELSE w)

\* ------------------------------------------------------------------------
\* deserializer.ts: the bytes of a .uasb file read back as a CompiledModule
\* ------------------------------------------------------------------------
\* The Deserializer: its buffer and offset, the objects it has created so
\* far, and the message of what it threw ("" while it has thrown nothing)
NewDeserializer(buffer) ==
    [buf |-> buffer, offset |-> 0, fnHeap |-> <<>>, classHeap |-> <<>>,
     error |-> ""]

Read(r, value) == [r |-> r, value |-> value]

\* Buffer.readUInt8: throws past the end of the buffer
readByte(r) ==
    IF r.error # "" THEN Read(r, 0)
    ELSE IF r.offset >= Len(r.buf)
    THEN Read([r EXCEPT !.error = "RangeError: out of range"], 0)
    ELSE Read([r EXCEPT !.offset = @ + 1],
              IF r.buf[r.offset + 1].k = "u8" THEN r.buf[r.offset + 1].v
              ELSE 0)

readUInt16(r) ==
    Bind(readByte(r), LAMBDA b0 :
    Bind(readByte(b0.r), LAMBDA b1 :
        Read(b1.r, b0.value + 256 * b1.value)))

readUInt32(r) ==
    Bind(readByte(r), LAMBDA b0 :
    Bind(readByte(b0.r), LAMBDA b1 :
    Bind(readByte(b1.r), LAMBDA b2 :
    Bind(readByte(b2.r), LAMBDA b3 :
        Read(b3.r, b0.value + 256 * b1.value + 65536 * b2.value
                       + 16777216 * b3.value)))))

readDouble(r) ==
    IF r.error # "" THEN Read(r, 0)
    ELSE IF r.offset >= Len(r.buf)
    THEN Read([r EXCEPT !.error = "RangeError: out of range"], 0)
    ELSE Read([r EXCEPT !.offset = @ + 1],
              IF r.buf[r.offset + 1].k = "f64" THEN r.buf[r.offset + 1].v
              ELSE 0)

\* buffer.toString('utf-8', offset, offset + len) never throws: past the end
\* of the buffer it yields what is there
readString(r) ==
    Bind(readUInt32(r), LAMBDA len :
        IF len.r.error # "" THEN Read(len.r, "")
        ELSE IF len.r.offset >= Len(len.r.buf) \/ len.value = 0
        THEN Read(len.r, "")
        ELSE Read([len.r EXCEPT !.offset = @ + 1],
                  IF len.r.buf[len.r.offset + 1].k = "utf8"
                  THEN len.r.buf[len.r.offset + 1].v
                  ELSE ""))

\* return { op, arg }
readInstruction(r) ==
    Bind(readByte(r), LAMBDA op :
    Bind(readUInt32(op.r), LAMBDA arg :
        Read(arg.r, Instr(OpName(op.value), arg.value))))

\* for (let i = 0; i < n; i++) { read x }: the loops of the deserializer,
\* by the kind of thing read; the value is the sequence of what was read
RECURSIVE readEach(_, _, _)

\* The value is the new CompiledFunction object (its place in fnHeap)
readFunction(r) ==
    Bind(readString(r), LAMBDA name :
    Bind(readUInt32(name.r), LAMBDA arity :
    Bind(readUInt32(arity.r), LAMBDA localCount :
    Bind(readUInt32(localCount.r), LAMBDA upvalueCount :
    Bind(readEach(upvalueCount.r, "upvalue", upvalueCount.value),
         LAMBDA upvalues :
    Bind(readUInt32(upvalues.r), LAMBDA codeLen :
    Bind(readEach(codeLen.r, "instruction", codeLen.value), LAMBDA code :
        Read([code.r EXCEPT !.fnHeap =
                 Append(@, [name |-> name.value,
                            arity |-> arity.value,
                            localCount |-> localCount.value,
                            upvalueCount |-> upvalueCount.value,
                            upvalues |-> upvalues.value,
                            code |-> code.value])],
             Len(code.r.fnHeap) + 1))))))))

\* new Map, methods.set(mName, mFn) for every entry read
MethodMap(entries) ==
    [n \in {entries[i].name : i \in 1..Len(entries)} |->
        entries[SetMax({i \in 1..Len(entries) : entries[i].name = n})].fn]

\* case TAG_CLASS of readValue
readClass(r) ==
    Bind(readString(r), LAMBDA name :
    Bind(readUInt32(name.r), LAMBDA fieldCount :
    Bind(readEach(fieldCount.r, "string", fieldCount.value), LAMBDA fields :
    Bind(readUInt32(fields.r), LAMBDA methodCount :
    Bind(readEach(methodCount.r, "method", methodCount.value),
         LAMBDA methods :
        Read([methods.r EXCEPT !.classHeap =
                 Append(@, [name |-> name.value, fields |-> fields.value,
                            methods |-> MethodMap(methods.value)])],
             ValClass(Len(methods.r.classHeap) + 1)))))))

readValue(r) ==
    Bind(readByte(r), LAMBDA tag :
        CASE tag.r.error # "" -> Read(tag.r, ValNone)
          [] tag.value = TAG_NONE -> Read(tag.r, ValNone)
          [] tag.value = TAG_INT ->
                Bind(readDouble(tag.r), LAMBDA d : Read(d.r, ValInt(d.value)))
          [] tag.value = TAG_FLOAT ->
                Bind(readDouble(tag.r), LAMBDA d : Read(d.r, ValFloat(d.value)))
          [] tag.value = TAG_STRING ->
                Bind(readString(tag.r), LAMBDA s : Read(s.r, ValString(s.value)))
          [] tag.value = TAG_BOOL ->
                Bind(readByte(tag.r), LAMBDA b : Read(b.r, ValBool(b.value # 0)))
          [] tag.value = TAG_FUNCTION ->
                Bind(readFunction(tag.r),
                     LAMBDA fn : Read(fn.r, ValFunction(fn.value)))
          [] tag.value = TAG_CLASS -> readClass(tag.r)
          [] OTHER -> Read([tag.r EXCEPT !.error = "Unknown value tag"],
                           ValNone))

\* The body of one of the loops
readItem(r, kind) ==
    CASE kind = "instruction" -> readInstruction(r)
      [] kind = "upvalue" ->
            Bind(readByte(r), LAMBDA isLocal :
            Bind(readUInt32(isLocal.r), LAMBDA index :
                Read(index.r, [isLocal |-> isLocal.value # 0,
                               index |-> index.value])))
      [] kind = "string" -> readString(r)
      [] kind = "value" -> readValue(r)
      [] kind = "function" -> readFunction(r)
      [] kind = "method" ->
            Bind(readString(r), LAMBDA mName :
            Bind(readFunction(mName.r), LAMBDA mFn :
                Read(mFn.r, [name |-> mName.value, fn |-> mFn.value])))

readEach(r, kind, n) ==
    IF n = 0 \/ r.error # "" THEN Read(r, <<>>)
    ELSE IF n = 1
    THEN Bind(readItem(r, kind), LAMBDA x : Read(x.r, <<x.value>>))
    ELSE Bind(readEach(r, kind, n \div 2), LAMBDA p :
         Bind(readEach(p.r, kind, n - n \div 2), LAMBDA q :
             Read(q.r, p.value \o q.value)))

\* The magic, compared with nothing
checkMagicSkipped(r, magic) == r

\* if (magic !== "UABC") throw new Error("Invalid bytecode file format")
checkMagic(r, magic) ==
    IF r.error = "" /\ magic # "UABC"
    THEN [r EXCEPT !.error = "Invalid bytecode file format"]
    ELSE r

\* const version = this.readUInt16(): read, and compared with nothing
readVersion(r) == readUInt16(r)

\* Deserializer.deserialize: the Deserializer as it is left (r), and the
\* module returned unless r.error tells of a throw
deserialize(buffer) ==
    Bind(readString(NewDeserializer(buffer)), LAMBDA magic :
    Bind(readVersion(checkMagic(magic.r, magic.value)), LAMBDA version :
    Bind(readUInt32(version.r), LAMBDA constLen :
    Bind(readEach(constLen.r, "value", constLen.value), LAMBDA constants :
    Bind(readUInt32(constants.r), LAMBDA globalLen :
    Bind(readEach(globalLen.r, "string", globalLen.value),
         LAMBDA globalNames :
    Bind(readUInt32(globalNames.r), LAMBDA funcLen :
    Bind(readEach(funcLen.r, "function", funcLen.value), LAMBDA functions :
    Bind(readUInt32(functions.r), LAMBDA mainLen :
    Bind(readEach(mainLen.r, "instruction", mainLen.value),
         LAMBDA mainCode :
        Read(mainCode.r,
             [constants |-> constants.value,
              globals |-> globalNames.value,
              functions |-> functions.value,
              mainCode |-> mainCode.value,
              fnHeap |-> mainCode.r.fnHeap,
              classHeap |-> mainCode.r.classHeap,
              globalRefs |-> <<>>,
              error |-> ""])))))))))))

\* ------------------------------------------------------------------------
\* vm.ts: the virtual machine
\* ------------------------------------------------------------------------
\* phase   "init" | "compiled" | "ready" | "running" | "halted" | "error"
\*         | "rejected"
\* input   what the command line names: a parsed program, or a bytecode file
\* module  the CompiledModule the compiler or the deserializer returned
\* file    the bytes of the .uasb file (buf), and how far the Deserializer
\*         has read them (offset)
\* stack, frames, globals: the VM's fields; cells, vecs and objs are the
\*         heaps of UpvalueCell objects, of cell arrays (Closure.cells and
\*         CallFrame.upvalues, 0 marking an empty slot of the array) and of
\*         instances
\* output  the texts handed to onOutput, in order
\* result  the value execute() returned; error: the message it threw
\* serials the number of frames created so far.  frame.serial and
\*         cell.origin are history fields (not in the source): the
\*         activation's number, and the activation and local slot a cell was
\*         initialised from
VARIABLES phase, input, module, file, stack, frames, globals, cells, vecs,
          objs, output, result, error, serials

vars == <<phase, input, module, file, stack, frames, globals, cells, vecs,
          objs, output, result, error, serials>>

EmptyModule ==
    [constants |-> <<>>, globals |-> <<>>, functions |-> <<>>,
     mainCode |-> <<>>, fnHeap |-> <<>>, classHeap |-> <<>>,
     globalRefs |-> <<>>, error |-> ""]

\* const mainFn = { name: '__main__', ... code: module.mainCode }
mainFn ==
    [name |-> "__main__", arity |-> 0, localCount |-> 0, upvalueCount |-> 0,
     upvalues |-> <<>>, code |-> module.mainCode]

\* The CompiledFunction object a frame or value refers to (0: mainFn)
FnOf(fid) == IF fid = 0 THEN mainFn ELSE module.fnHeap[fid]

VM ==
    [stack |-> stack, frames |-> frames, globals |-> globals,
     cells |-> cells, vecs |-> vecs, objs |-> objs, output |-> output,
     serials |-> serials]

currentFrame(vm) == vm.frames[Len(vm.frames)]

\* Outcomes of executeInstruction: falls through, throws, or returns a value
Normal(vm) == [vm |-> vm, kind |-> "ok", msg |-> <<>>, result |-> ValNone]
Throw(vm, msg) ==
    [vm |-> vm, kind |-> "throw", msg |-> <<"Error: ">> \o msg,
     result |-> ValNone]
ThrowTypeError(vm) ==
    [vm |-> vm, kind |-> "throw",
     msg |-> <<"TypeError: ", "Cannot read properties of undefined">>,
     result |-> ValNone]
Return(vm, v) == [vm |-> vm, kind |-> "return", msg |-> <<>>, result |-> v]

push(vm, v) == [vm EXCEPT !.stack = Append(@, v)]
\* the value k places below the top
Peek(vm, k) == vm.stack[Len(vm.stack) - k]
Drop(vm, n) == [vm EXCEPT !.stack = SubSeq(@, 1, Len(@) - n)]
\* pop() on an empty stack, after the pops that succeeded
Underflow(vm) == Throw([vm EXCEPT !.stack = <<>>], <<"Stack underflow">>)

\* String(n) of an integral number
Digit(d) == <<"0", "1", "2", "3", "4", "5", "6", "7", "8", "9">>[d + 1]

RECURSIVE NatToString(_)
NatToString(n) ==
    IF n < 10 THEN Digit(n) ELSE NatToString(n \div 10) \o Digit(n % 10)

\* The digits after the decimal point of num / den, for 0 < num < den and
\* a decimal expansion that ends
RECURSIVE Decimals(_, _)
Decimals(num, den) ==
    IF num = 0 THEN ""
    ELSE Digit((num * 10) \div den) \o Decimals((num * 10) % den, den)

\* String(n) of a number that is no integer, num / den with den > 1, or
\* of an infinity, den = 0
FractionToString(q) ==
    IF q.den = 0 THEN (IF q.num < 0 THEN "-Infinity" ELSE "Infinity")
    ELSE (IF q.num < 0 THEN "-" ELSE "")
             \o NatToString((IF q.num < 0 THEN -q.num ELSE q.num) \div q.den)
             \o "."
             \o Decimals((IF q.num < 0 THEN -q.num ELSE q.num) % q.den, q.den)

NumberToString(n) == IF n < 0 THEN "-" \o NatToString(-n) ELSE NatToString(n)

\* values.join(sep)
RECURSIVE Join(_, _)
Join(strs, sep) ==
    IF Len(strs) = 0 THEN ""
    ELSE IF Len(strs) = 1 THEN strs[1]
    ELSE strs[1] \o sep \o Join(Tail(strs), sep)

\* bytecode.ts valueToString.  The words the source writes in Ukrainian
\* are transliterated.
RECURSIVE valueToString(_, _)
valueToString(vm, v) ==
    CASE v.type \in {"int", "float"} ->
            IF "den" \in DOMAIN v THEN FractionToString(v)
            ELSE NumberToString(v.value)
      [] v.type = "list" ->
            "[" \o Join([i \in 1..Len(vm.objs[v.value].elements) |->
                            valueToString(vm, vm.objs[v.value].elements[i])],
                        ", ") \o "]"
      [] v.type = "string" -> v.value
      [] v.type = "bool" -> IF v.value THEN "true" ELSE "false"
      [] v.type = "none" -> "none"
      [] v.type = "function" ->
            "<funktsiya " \o (IF v.native THEN v.value
                              ELSE FnOf(v.value).name) \o ">"
      [] v.type = "closure" -> "<zamykannya " \o FnOf(v.fn).name \o ">"
      [] v.type = "boundMethod" -> "<metod " \o FnOf(v.method).name \o ">"
      [] v.type = "class" -> "<klas " \o module.classHeap[v.value].name \o ">"
      [] v.type = "instance" ->
            "<" \o module.classHeap[vm.objs[v.value].classDef].name
                \o " instance>"
      [] OTHER -> "<unknown>"

\* vm.ts equals
RECURSIVE equals(_, _, _)
equals(vm, a, b) ==
    IF a.type # b.type THEN FALSE
    ELSE IF a.type = "none" THEN TRUE
    ELSE IF a.type \in {"int", "float", "bool", "string"}
    THEN a.value = b.value
    ELSE IF a.type = "list"
    THEN /\ Len(vm.objs[a.value].elements) = Len(vm.objs[b.value].elements)
         /\ \A i \in 1..Len(vm.objs[a.value].elements) :
                equals(vm, vm.objs[a.value].elements[i],
                       vm.objs[b.value].elements[i])
    ELSE FALSE

IsNumber(v) == v.type \in {"int", "float"}

\* vm.ts add / sub: [ok, value] or [ok = FALSE, msg]
add(vm, a, b) ==
    CASE a.type = "int" /\ b.type = "int" ->
            [ok |-> TRUE, value |-> ValInt(a.value + b.value)]
      [] IsNumber(a) /\ IsNumber(b) /\ ~(a.type = "int" /\ b.type = "int") ->
            [ok |-> TRUE, value |-> ValFloat(a.value + b.value)]
      [] a.type = "string" /\ b.type = "string" ->
            [ok |-> TRUE, value |-> ValString(a.value \o b.value)]
      [] (a.type = "string" \/ b.type = "string")
            /\ ~(a.type = "string" /\ b.type = "string") ->
            [ok |-> TRUE,
             value |-> ValString(valueToString(vm, a) \o valueToString(vm, b))]
      [] a.type = "list" /\ b.type = "list" ->
            [ok |-> TRUE, value |-> ValList(Len(vm.objs) + 1),
             elements |-> vm.objs[a.value].elements
                              \o vm.objs[b.value].elements]
      [] OTHER ->
            [ok |-> FALSE,
             msg |-> <<"Cannot add ", a.type, " and ", b.type>>]

sub(vm, a, b) ==
    CASE a.type = "int" /\ b.type = "int" ->
            [ok |-> TRUE, value |-> ValInt(a.value - b.value)]
      [] IsNumber(a) /\ IsNumber(b) /\ ~(a.type = "int" /\ b.type = "int") ->
            [ok |-> TRUE, value |-> ValFloat(a.value - b.value)]
      [] OTHER ->
            [ok |-> FALSE,
             msg |-> <<"Cannot subtract ", a.type, " and ", b.type>>]

\* str.repeat(n) for n >= 0
RECURSIVE Repeat(_, _)
Repeat(str, n) == IF n = 0 THEN "" ELSE str \o Repeat(str, n - 1)

mul(vm, a, b) ==
    CASE a.type = "int" /\ b.type = "int" ->
            [ok |-> TRUE, value |-> ValInt(a.value * b.value)]
      [] IsNumber(a) /\ IsNumber(b) /\ ~(a.type = "int" /\ b.type = "int") ->
            [ok |-> TRUE, value |-> ValFloat(a.value * b.value)]
      [] a.type = "string" /\ b.type = "int" ->
            IF b.value < 0
            THEN [ok |-> FALSE, range |-> TRUE,
                  msg |-> <<"Invalid count value: ", NumberToString(b.value)>>]
            ELSE [ok |-> TRUE, value |-> ValString(Repeat(a.value, b.value))]
      [] OTHER ->
            [ok |-> FALSE,
             msg |-> <<"Cannot multiply ", a.type, " and ", b.type>>]

\* The greatest common divisor of two positive numbers
RECURSIVE Gcd(_, _)
Gcd(x, y) == IF y = 0 THEN x ELSE Gcd(y, x % y)

\* Val.float(x / y) for integral x and y.  A quotient that is no integer
\* is kept as the fraction num / den in lowest terms (den > 1), an infinity
\* with den = 0; the programs considered print such a value and compute
\* nothing from it
FloatQuotient(x, y) ==
    IF y = 0
    THEN [type |-> "float", num |-> IF x < 0 THEN -1 ELSE 1, den |-> 0]
    ELSE LET ax == IF x < 0 THEN -x ELSE x
             ay == IF y < 0 THEN -y ELSE y
             sign == IF (x < 0) = (y < 0) THEN 1 ELSE -1
         IN IF ax % ay = 0 THEN ValFloat(sign * (ax \div ay))
            ELSE [type |-> "float",
                  num |-> sign * (ax \div Gcd(ax, ay)),
                  den |-> ay \div Gcd(ax, ay)]

\* div without the test of the divisor
divUnchecked(vm, a, b) ==
    IF IsNumber(a) /\ IsNumber(b)
    THEN [ok |-> TRUE, value |-> FloatQuotient(a.value, b.value)]
    ELSE [ok |-> FALSE, msg |-> <<"Cannot divide ", a.type, " and ", b.type>>]
div(vm, a, b) ==
    IF IsNumber(a) /\ IsNumber(b)
    THEN IF b.value = 0
         THEN [ok |-> FALSE, msg |-> <<"Division by zero">>]
         ELSE [ok |-> TRUE, value |-> FloatQuotient(a.value, b.value)]
    ELSE [ok |-> FALSE, msg |-> <<"Cannot divide ", a.type, " and ", b.type>>]

\* x % y of JavaScript for integers, y # 0: the sign of the dividend
Remainder(x, y) ==
    LET r == (IF x < 0 THEN -x ELSE x) % (IF y < 0 THEN -y ELSE y)
    IN IF x < 0 THEN -r ELSE r

mod(vm, a, b) ==
    IF a.type = "int" /\ b.type = "int"
    THEN IF b.value = 0
         THEN [ok |-> FALSE, msg |-> <<"Modulo by zero">>]
         ELSE [ok |-> TRUE, value |-> ValInt(Remainder(a.value, b.value))]
    ELSE [ok |-> FALSE, msg |-> <<"Cannot mod ", a.type, " and ", b.type>>]

\* x to the power n for n >= 0
RECURSIVE Power(_, _)
Power(x, n) == IF n = 0 THEN 1 ELSE x * Power(x, n - 1)

\* Val.float(Math.pow(x, y)) for integral x and y
FloatPow(x, y) ==
    IF y >= 0 THEN ValFloat(Power(x, y)) ELSE FloatQuotient(1, Power(x, -y))

pow(vm, a, b) ==
    IF IsNumber(a) /\ IsNumber(b)
    THEN IF a.type = "int" /\ b.type = "int" /\ b.value >= 0
         THEN [ok |-> TRUE, value |-> ValInt(Power(a.value, b.value))]
         ELSE [ok |-> TRUE, value |-> FloatPow(a.value, b.value)]
    ELSE [ok |-> FALSE, msg |-> <<"Cannot pow ", a.type, " and ", b.type>>]

\* The strings of the programs below in collation order, and
\* a.localeCompare(b) for two of them: negative, 0 or positive
Collation == <<"a", "b", "c", "d", "w", "z">>

localeCompare(s, t) == IndexOf(Collation, s) - IndexOf(Collation, t)

\* vm.ts compare: [ok, value] or [ok = FALSE, msg]
compare(a, b) ==
    IF IsNumber(a) /\ IsNumber(b)
    THEN [ok |-> TRUE, value |-> a.value - b.value]
    ELSE IF a.type = "string" /\ b.type = "string"
    THEN [ok |-> TRUE, value |-> localeCompare(a.value, b.value)]
    ELSE [ok |-> FALSE, msg |-> <<"Cannot compare ", a.type, " and ", b.type>>]

\* const b = this.pop(); const a = this.pop(); this.push(op(a, b)):
\* the two operands popped, a the lower one, and the outcome r of op(a, b)
\* pushed or thrown
Operands(vm) == [a |-> Peek(vm, 1), b |-> Peek(vm, 0)]

Binary(vm, r) ==
    IF r.ok
    THEN IF "elements" \in DOMAIN r
         THEN Normal(push([Drop(vm, 2) EXCEPT
                              !.objs = Append(@, [elements |-> r.elements])],
                          r.value))
         ELSE Normal(push(Drop(vm, 2), r.value))
    ELSE IF "range" \in DOMAIN r
    THEN [Throw(Drop(vm, 2), r.msg) EXCEPT
             !.msg = <<"RangeError: ">> \o r.msg]
    ELSE Throw(Drop(vm, 2), r.msg)

\* this.push(Val.bool(test)) for a test that does not throw
Pushed(test) == [ok |-> TRUE, value |-> ValBool(test)]

\* frame.locals with slot idx set, grown with none up to idx
SetLocal(locals, idx, value) ==
    [i \in 1..(IF idx + 1 > Len(locals) THEN idx + 1 ELSE Len(locals)) |->
        IF i = idx + 1 THEN value
        ELSE IF i <= Len(locals) THEN locals[i] ELSE ValNone]

\* globalNames[arg]; an index outside the table yields undefined
GlobalName(arg) ==
    IF arg >= 0 /\ arg < Len(module.globals) THEN module.globals[arg + 1]
    ELSE "<undefined>"

opLOAD_CONST(vm, arg) ==
    IF arg >= 0 /\ arg < Len(module.constants)
    THEN Normal(push(vm, module.constants[arg + 1]))
    ELSE Normal(push(vm, [type |-> "undefined"]))

opLOAD_VAR(vm, arg) ==
    LET locals == currentFrame(vm).locals
    IN Normal(push(vm, IF arg >= 0 /\ arg < Len(locals) THEN locals[arg + 1]
                       ELSE ValNone))

\* STORE_VAR that writes the slot in the caller's frame when there is one
opSTORE_VARInCaller(vm, arg) ==
    IF Len(vm.stack) < 1 THEN Underflow(vm)
    ELSE LET value == Peek(vm, 0)
             v1 == Drop(vm, 1)
             k == IF Len(v1.frames) > 1 THEN Len(v1.frames) - 1
                  ELSE Len(v1.frames)
         IN Normal([v1 EXCEPT !.frames[k].locals = SetLocal(@, arg, value)])

opSTORE_VAR(vm, arg) ==
    IF Len(vm.stack) < 1 THEN Underflow(vm)
    ELSE LET value == Peek(vm, 0)
             v1 == Drop(vm, 1)
         IN Normal([v1 EXCEPT !.frames[Len(v1.frames)].locals =
                                  SetLocal(@, arg, value)])

opLOAD_GLOBAL(vm, arg) ==
    LET name == GlobalName(arg)
    IN Normal(push(vm, IF MapHas(vm.globals, name) THEN vm.globals[name]
                       ELSE ValNone))

\* STORE_GLOBAL writing to a copy of the globals while a call is running
opSTORE_GLOBALInCall(vm, arg) ==
    IF Len(vm.stack) < 1 THEN Underflow(vm)
    ELSE LET value == Peek(vm, 0)
             v1 == Drop(vm, 1)
         IN IF Len(vm.frames) > 1 THEN Normal(v1)
            ELSE Normal([v1 EXCEPT
                            !.globals = MapSet(@, GlobalName(arg), value)])

opSTORE_GLOBAL(vm, arg) ==
    IF Len(vm.stack) < 1 THEN Underflow(vm)
    ELSE LET value == Peek(vm, 0)
             v1 == Drop(vm, 1)
         IN Normal([v1 EXCEPT !.globals = MapSet(@, GlobalName(arg), value)])

opPOP(vm, arg) ==
    IF Len(vm.stack) < 1 THEN Underflow(vm) ELSE Normal(Drop(vm, 1))

opDUP(vm, arg) ==
    IF Len(vm.stack) < 1 THEN Throw(vm, <<"Stack is empty">>)
    ELSE Normal(push(vm, Peek(vm, 0)))

opADD(vm, arg) ==
    IF Len(vm.stack) < 2 THEN Underflow(vm)
    ELSE Binary(vm, add(vm, Operands(vm).a, Operands(vm).b))

opSUB(vm, arg) ==
    IF Len(vm.stack) < 2 THEN Underflow(vm)
    ELSE Binary(vm, sub(vm, Operands(vm).a, Operands(vm).b))

opMUL(vm, arg) ==
    IF Len(vm.stack) < 2 THEN Underflow(vm)
    ELSE Binary(vm, mul(vm, Operands(vm).a, Operands(vm).b))

opDIV(vm, arg) ==
    IF Len(vm.stack) < 2 THEN Underflow(vm)
    ELSE Binary(vm, div(vm, Operands(vm).a, Operands(vm).b))

opMOD(vm, arg) ==
    IF Len(vm.stack) < 2 THEN Underflow(vm)
    ELSE Binary(vm, mod(vm, Operands(vm).a, Operands(vm).b))

opPOW(vm, arg) ==
    IF Len(vm.stack) < 2 THEN Underflow(vm)
    ELSE Binary(vm, pow(vm, Operands(vm).a, Operands(vm).b))

opNEG(vm, arg) ==
    IF Len(vm.stack) < 1 THEN Underflow(vm)
    ELSE CASE Peek(vm, 0).type = "int" ->
                 Normal(push(Drop(vm, 1), ValInt(-Peek(vm, 0).value)))
           [] Peek(vm, 0).type = "float" ->
                 Normal(push(Drop(vm, 1), ValFloat(-Peek(vm, 0).value)))
           [] OTHER -> Throw(Drop(vm, 1), <<"Cannot negate non-number">>)

opEQ(vm, arg) ==
    IF Len(vm.stack) < 2 THEN Underflow(vm)
    ELSE Binary(vm, Pushed(equals(vm, Operands(vm).a, Operands(vm).b)))

opNE(vm, arg) ==
    IF Len(vm.stack) < 2 THEN Underflow(vm)
    ELSE Binary(vm, Pushed(~equals(vm, Operands(vm).a, Operands(vm).b)))

opLT(vm, arg) ==
    IF Len(vm.stack) < 2 THEN Underflow(vm)
    ELSE Binary(vm, Bind(compare(Operands(vm).a, Operands(vm).b),
                         LAMBDA c : IF c.ok THEN Pushed(c.value < 0) ELSE c))

opGT(vm, arg) ==
    IF Len(vm.stack) < 2 THEN Underflow(vm)
    ELSE Binary(vm, Bind(compare(Operands(vm).a, Operands(vm).b),
                         LAMBDA c : IF c.ok THEN Pushed(c.value > 0) ELSE c))

opLE(vm, arg) ==
    IF Len(vm.stack) < 2 THEN Underflow(vm)
    ELSE Binary(vm, Bind(compare(Operands(vm).a, Operands(vm).b),
                         LAMBDA c : IF c.ok THEN Pushed(c.value <= 0) ELSE c))

opGE(vm, arg) ==
    IF Len(vm.stack) < 2 THEN Underflow(vm)
    ELSE Binary(vm, Bind(compare(Operands(vm).a, Operands(vm).b),
                         LAMBDA c : IF c.ok THEN Pushed(c.value >= 0) ELSE c))

opJUMP(vm, arg) ==
    Normal([vm EXCEPT !.frames[Len(vm.frames)].ip = arg])

opJUMP_IF_FALSE(vm, arg) ==
    IF Len(vm.stack) < 1 THEN Underflow(vm)
    ELSE LET cond == Peek(vm, 0)
             v1 == Drop(vm, 1)
         IN IF ~isTruthy(cond)
            THEN Normal([v1 EXCEPT !.frames[Len(v1.frames)].ip = arg])
            ELSE Normal(v1)

opJUMP_IF_TRUE(vm, arg) ==
    IF Len(vm.stack) < 1 THEN Underflow(vm)
    ELSE LET cond == Peek(vm, 0)
             v1 == Drop(vm, 1)
         IN IF isTruthy(cond)
            THEN Normal([v1 EXCEPT !.frames[Len(v1.frames)].ip = arg])
            ELSE Normal(v1)

\* stdlib.ts: the built-ins the model keeps (abs, min, max of the registry)
StdlibNames == {"abs", "min", "max"}

STDLIB == [n \in StdlibNames |-> ValBuiltin(n)]

Abs(n) == IF n < 0 THEN -n ELSE n

\* fn.fn(...args) of a built-in: [ok, value] or [ok = FALSE, msg]
callBuiltin(name, args) ==
    CASE name = "abs" ->
            IF Len(args) >= 1 /\ IsNumber(args[1])
            THEN [ok |-> TRUE,
                  value |-> [type |-> args[1].type, value |-> Abs(args[1].value)]]
            ELSE [ok |-> FALSE, msg |-> <<"abs() expects a number">>]
      [] name \in {"min", "max"} ->
            IF Len(args) >= 2 /\ IsNumber(args[1]) /\ IsNumber(args[2])
            THEN LET m == IF name = "min"
                          THEN (IF args[1].value <= args[2].value
                                THEN args[1].value ELSE args[2].value)
                          ELSE (IF args[1].value >= args[2].value
                                THEN args[1].value ELSE args[2].value)
                 IN [ok |-> TRUE,
                     value |-> IF args[1].type = "int" /\ args[2].type = "int"
                               THEN ValInt(m) ELSE ValFloat(m)]
            ELSE [ok |-> FALSE, msg |-> <<name, "() expects numbers">>]
      [] OTHER -> [ok |-> FALSE, msg |-> <<"not a function">>]

\* the frame made with the main frame's cell array instead of the callee's
NewFrameWithoutCells(vm, fid, locals, upvalues) ==
    [fn |-> fid, ip |-> 0, stackBase |-> Len(vm.stack), locals |-> locals,
     upvalues |-> 1, serial |-> vm.serials + 1]

\* The frame CALL pushes; upvalues names the frame's cell array
NewFrame(vm, fid, locals, upvalues) ==
    [fn |-> fid, ip |-> 0, stackBase |-> Len(vm.stack), locals |-> locals,
     upvalues |-> upvalues, serial |-> vm.serials + 1]

pushFrame(vm, frame) ==
    [vm EXCEPT !.frames = Append(@, frame), !.serials = @ + 1]

\* upvalues: [] -- a fresh empty cell array
pushFrameFreshUpvalues(vm, fid, locals) ==
    LET v1 == [vm EXCEPT !.vecs = Append(@, <<>>)]
    IN pushFrame(v1, NewFrame(v1, fid, locals, Len(v1.vecs)))

\* the arguments collected with push instead of unshift
CallArgsPushed(stk, argc) ==
    Reverse(SubSeq(stk, Len(stk) - argc + 1, Len(stk)))

\* for (i < argc) args.unshift(this.pop()): the argc values under the
\* callee, bottom-most first
CallArgs(stk, argc) == SubSeq(stk, Len(stk) - argc + 1, Len(stk))

\* args = [receiver]; for (i < argc) args.splice(1, 0, this.pop());
\* args.splice(1, 0, ...args.splice(1).reverse())
BoundCallArgs(receiver, stk, argc) ==
    LET afterLoop == <<receiver>> \o SubSeq(stk, Len(stk) - argc + 1, Len(stk))
    IN <<receiver>> \o Reverse(Tail(afterLoop))

ArityMessage(arity, argc) ==
    <<"Expected ", NumberToString(arity), " args, got ", NumberToString(argc)>>

MethodArityMessage(arity, argc) ==
    <<"Method expected ", NumberToString(arity - 1), " args, got ",
      NumberToString(argc)>>

\* the call made without the comparison of argc with the arity
ArityUnchecked(argc, arity) == FALSE

\* argc !== fn.arity
ArityMismatch(argc, arity) == argc # arity

\* argc + 1 !== method.arity
MethodArityMismatch(argc, arity) == argc + 1 # arity

opCALL(vm, argc) ==
    IF Len(vm.stack) < 1 THEN Underflow(vm)
    ELSE
    LET callee == Peek(vm, 0)
        v1 == Drop(vm, 1)
    IN CASE callee.type = "boundMethod" ->
              LET method == FnOf(callee.method)
              IN IF Len(v1.stack) < argc THEN Underflow(v1)
                 ELSE LET args == BoundCallArgs(callee.receiver, v1.stack, argc)
                          v2 == Drop(v1, argc)
                      IN IF MethodArityMismatch(argc, method.arity)
                         THEN Throw(v2, MethodArityMessage(method.arity, argc))
                         ELSE Normal(pushFrameFreshUpvalues(
                                         v2, callee.method, args))
         [] callee.type = "closure" ->
              LET fn == FnOf(callee.fn)
              IN IF ArityMismatch(argc, fn.arity)
                 THEN Throw(v1, ArityMessage(fn.arity, argc))
                 ELSE IF Len(v1.stack) < argc THEN Underflow(v1)
                 ELSE LET args == CallArgs(v1.stack, argc)
                          v2 == Drop(v1, argc)
                      IN Normal(pushFrame(
                             v2, NewFrame(v2, callee.fn, args, callee.cells)))
         [] callee.type = "function" /\ callee.native ->
              IF Len(v1.stack) < argc THEN Underflow(v1)
              ELSE LET args == CallArgs(v1.stack, argc)
                       v2 == Drop(v1, argc)
                       r == callBuiltin(callee.value, args)
                   IN IF r.ok THEN Normal(push(v2, r.value))
                      ELSE Throw(v2, r.msg)
         [] callee.type = "function" /\ ~callee.native ->
              LET fn == FnOf(callee.value)
              IN IF ArityMismatch(argc, fn.arity)
                 THEN Throw(v1, ArityMessage(fn.arity, argc))
                 ELSE IF Len(v1.stack) < argc THEN Underflow(v1)
                 ELSE LET args == CallArgs(v1.stack, argc)
                          v2 == Drop(v1, argc)
                      IN Normal(pushFrameFreshUpvalues(v2, callee.value, args))
         [] OTHER -> Throw(v1, <<"Cannot call ", callee.type>>)

opRETURN(vm, arg) ==
    IF Len(vm.stack) < 1 THEN Underflow(vm)
    ELSE LET returnValue == Peek(vm, 0)
             v1 == [Drop(vm, 1) EXCEPT !.frames = SubSeq(@, 1, Len(@) - 1)]
         IN IF Len(v1.frames) = 0 THEN Return(v1, returnValue)
            ELSE Normal(push(v1, returnValue))

\* The cell one descriptor yields, with the heap it leaves: isLocal makes a
\* new cell holding the current value of the frame's local; otherwise the
\* frame's own cell is reused (a new cell holding none when it has none)
CaptureCell(heap, frame, vec, desc) ==
    IF desc.isLocal
    THEN LET value == IF desc.index < Len(frame.locals)
                      THEN frame.locals[desc.index + 1] ELSE ValNone
         IN [cells |-> Append(heap, [value |-> value,
                                     origin |-> [serial |-> frame.serial,
                                                 slot |-> desc.index]]),
             cell |-> Len(heap) + 1]
    ELSE IF desc.index < Len(vec) /\ vec[desc.index + 1] # 0
    THEN [cells |-> heap, cell |-> vec[desc.index + 1]]
    ELSE [cells |-> Append(heap, [value |-> ValNone,
                                  origin |-> [serial |-> 0, slot |-> 0]]),
          cell |-> Len(heap) + 1]

opMAKE_CLOSURE(vm, upvalueCount) ==
    IF Len(vm.stack) < 1 THEN Underflow(vm)
    ELSE
    LET fnValue == Peek(vm, 0)
        v1 == Drop(vm, 1)
    IN IF fnValue.type # "function" \/ fnValue.native
       THEN Throw(v1, <<"MAKE_CLOSURE expects a compiled function">>)
       ELSE
       LET fn == FnOf(fnValue.value)
           frame == currentFrame(v1)
           vec == v1.vecs[frame.upvalues]
           \* the loop over the descriptors: the heap and the cells so far
           Step[i \in 0..upvalueCount] ==
               IF i = 0 THEN [cells |-> v1.cells, vec |-> <<>>]
               ELSE LET c == CaptureCell(Step[i - 1].cells, frame, vec,
                                         fn.upvalues[i])
                    IN [cells |-> c.cells,
                        vec |-> Append(Step[i - 1].vec, c.cell)]
       IN IF upvalueCount > Len(fn.upvalues) THEN ThrowTypeError(v1)
          ELSE LET done == Step[upvalueCount]
                   v2 == [v1 EXCEPT !.cells = done.cells,
                                    !.vecs = Append(@, done.vec)]
               IN Normal(push(v2, ValClosure(fnValue.value, Len(v2.vecs))))

opLOAD_UPVALUE(vm, idx) ==
    LET vec == vm.vecs[currentFrame(vm).upvalues]
    IN Normal(push(vm, IF idx < Len(vec) /\ vec[idx + 1] # 0
                       THEN vm.cells[vec[idx + 1]].value
                       ELSE ValNone))

\* frame.upvalues with slot idx naming cell c, grown with empty slots
SetVec(vec, idx, c) ==
    [i \in 1..(IF idx + 1 > Len(vec) THEN idx + 1 ELSE Len(vec)) |->
        IF i = idx + 1 THEN c
        ELSE IF i <= Len(vec) THEN vec[i] ELSE 0]

opSTORE_UPVALUE(vm, idx) ==
    IF Len(vm.stack) < 1 THEN Underflow(vm)
    ELSE
    LET value == Peek(vm, 0)
        v1 == Drop(vm, 1)
        vid == currentFrame(v1).upvalues
        vec == v1.vecs[vid]
    IN IF idx < Len(vec) /\ vec[idx + 1] # 0
       THEN Normal([v1 EXCEPT !.cells[vec[idx + 1]].value = value])
       ELSE Normal([v1 EXCEPT
                !.cells = Append(@, [value |-> value,
                                     origin |-> [serial |-> 0, slot |-> 0]]),
                !.vecs[vid] = SetVec(@, idx, Len(v1.cells) + 1)])

\* AND that answers from the left operand alone
opANDLeftOnly(vm, arg) ==
    IF Len(vm.stack) < 2 THEN Underflow(vm)
    ELSE Normal(push(Drop(vm, 2), ValBool(isTruthy(Peek(vm, 1)))))

opAND(vm, arg) ==
    IF Len(vm.stack) < 2 THEN Underflow(vm)
    ELSE Normal(push(Drop(vm, 2),
                     ValBool(isTruthy(Peek(vm, 1)) /\ isTruthy(Peek(vm, 0)))))

opOR(vm, arg) ==
    IF Len(vm.stack) < 2 THEN Underflow(vm)
    ELSE Normal(push(Drop(vm, 2),
                     ValBool(isTruthy(Peek(vm, 1)) \/ isTruthy(Peek(vm, 0)))))

opNOT(vm, arg) ==
    IF Len(vm.stack) < 1 THEN Underflow(vm)
    ELSE Normal(push(Drop(vm, 1), ValBool(~isTruthy(Peek(vm, 0)))))

\* this.constants[arg] of GET_ATTR / SET_ATTR: "ok" with the name, "type"
\* when the constant is no string, "undefined" when there is none
AttrName(arg) ==
    IF arg < 0 \/ arg >= Len(module.constants) THEN [st |-> "undefined"]
    ELSE IF module.constants[arg + 1].type # "string" THEN [st |-> "type"]
    ELSE [st |-> "ok", name |-> module.constants[arg + 1].value]

opGET_ATTR(vm, arg) ==
    LET n == AttrName(arg)
    IN CASE n.st = "undefined" -> ThrowTypeError(vm)
         [] n.st = "type" -> Throw(vm, <<"Attr name must be string">>)
         [] OTHER ->
            IF Len(vm.stack) < 1 THEN Underflow(vm)
            ELSE
            LET obj == Peek(vm, 0)
                v1 == Drop(vm, 1)
            IN CASE obj.type = "instance" ->
                      LET inst == v1.objs[obj.value]
                          methods == module.classHeap[inst.classDef].methods
                      IN IF MapHas(inst.fields, n.name)
                         THEN Normal(push(v1, inst.fields[n.name]))
                         ELSE IF MapHas(methods, n.name)
                         THEN Normal(push(v1, ValBoundMethod(
                                                  obj, methods[n.name])))
                         ELSE Throw(v1, <<"Unknown field/method: ", n.name>>)
                 [] obj.type = "list" ->
                      IF n.name = "length"
                      THEN Normal(push(v1, ValInt(
                               Len(v1.objs[obj.value].elements))))
                      ELSE Throw(v1, <<"Unknown list method: ", n.name>>)
                 [] obj.type = "string" ->
                      IF n.name = "length"
                      THEN Normal(push(v1, ValInt(Len(obj.value))))
                      ELSE Throw(v1, <<"Unknown string method: ", n.name>>)
                 [] OTHER -> Throw(v1, <<"Cannot get attr from ", obj.type>>)

\* SET_ATTR that writes a copy of the instance and leaves the one that the
\* other holders see as it was
opSET_ATTROnCopy(vm, arg) ==
    LET n == AttrName(arg)
    IN CASE n.st = "undefined" -> ThrowTypeError(vm)
         [] n.st = "type" -> Throw(vm, <<"Attr name must be string">>)
         [] OTHER ->
            IF Len(vm.stack) < 2 THEN Underflow(vm)
            ELSE
            LET obj == Peek(vm, 0)
                value == Peek(vm, 1)
                v1 == Drop(vm, 2)
            IN IF obj.type = "instance"
               THEN Normal([v1 EXCEPT !.objs =
                               Append(@, [v1.objs[obj.value] EXCEPT
                                   !.fields = MapSet(@, n.name, value)])])
               ELSE Throw(v1, <<"Cannot set attr on ", obj.type>>)

opSET_ATTR(vm, arg) ==
    LET n == AttrName(arg)
    IN CASE n.st = "undefined" -> ThrowTypeError(vm)
         [] n.st = "type" -> Throw(vm, <<"Attr name must be string">>)
         [] OTHER ->
            IF Len(vm.stack) < 2 THEN Underflow(vm)
            ELSE
            LET obj == Peek(vm, 0)
                value == Peek(vm, 1)
                v1 == Drop(vm, 2)
            IN IF obj.type = "instance"
               THEN Normal([v1 EXCEPT !.objs[obj.value].fields =
                                          MapSet(@, n.name, value)])
               ELSE Throw(v1, <<"Cannot set attr on ", obj.type>>)

\* fields.set for every field name, none where the argument is missing
InstanceFieldsPadded(names, args) ==
    LET F[i \in 0..Len(names)] ==
            IF i = 0 THEN EmptyMap
            ELSE MapSet(F[i - 1], names[i],
                        IF i <= Len(args) THEN args[i] ELSE ValNone)
    IN F[Len(names)]

\* for (i < min(fields.length, args.length)) fields.set(fields[i], args[i])
InstanceFields(names, args) ==
    LET n == IF Len(names) < Len(args) THEN Len(names) ELSE Len(args)
        F[i \in 0..n] ==
            IF i = 0 THEN EmptyMap ELSE MapSet(F[i - 1], names[i], args[i])
    IN F[n]

\* NEW_INSTANCE that yields none for a value that is no class
opNEW_INSTANCELenient(vm, argc) ==
    IF Len(vm.stack) < 1 THEN Underflow(vm)
    ELSE
    LET classVal == Peek(vm, 0)
        v1 == Drop(vm, 1)
    IN IF Len(v1.stack) < argc THEN Underflow(v1)
       ELSE IF classVal.type # "class"
       THEN Normal(push(Drop(v1, argc), ValNone))
       ELSE LET classDef == module.classHeap[classVal.value]
                args == CallArgs(v1.stack, argc)
                v2 == [Drop(v1, argc) EXCEPT !.objs =
                          Append(@, [classDef |-> classVal.value,
                                     fields |-> InstanceFields(
                                                    classDef.fields, args)])]
            IN Normal(push(v2, ValInstance(Len(v2.objs))))

opNEW_INSTANCE(vm, argc) ==
    IF Len(vm.stack) < 1 THEN Underflow(vm)
    ELSE
    LET classVal == Peek(vm, 0)
        v1 == Drop(vm, 1)
    IN IF classVal.type # "class"
       THEN Throw(v1, <<"Cannot instantiate ", classVal.type>>)
       ELSE IF Len(v1.stack) < argc THEN Underflow(v1)
       ELSE LET classDef == module.classHeap[classVal.value]
                args == CallArgs(v1.stack, argc)
                v2 == [Drop(v1, argc) EXCEPT !.objs =
                          Append(@, [classDef |-> classVal.value,
                                     fields |-> InstanceFields(
                                                    classDef.fields, args)])]
            IN Normal(push(v2, ValInstance(Len(v2.objs))))

\* elements.unshift(this.pop()) arg times: the elements in the order they
\* were pushed; the array is a new object
opMAKE_LIST(vm, arg) ==
    IF Len(vm.stack) < arg THEN Underflow(vm)
    ELSE Normal(push([Drop(vm, arg) EXCEPT
                         !.objs = Append(@, [elements |->
                             SubSeq(vm.stack, Len(vm.stack) - arg + 1,
                                    Len(vm.stack))])],
                     ValList(Len(vm.objs) + 1)))

\* `Index ${i} out of bounds`
OutOfBounds(i) == <<"Index ", NumberToString(i), " out of bounds">>

\* s[i] of a string; the strings of the programs considered have one
\* character
CharAt(s, i) == IF Len(s) = 1 THEN s ELSE "?"

opGET_INDEX(vm, arg) ==
    IF Len(vm.stack) < 2 THEN Underflow(vm)
    ELSE
    LET index == Peek(vm, 0)
        obj == Peek(vm, 1)
        v1 == Drop(vm, 2)
    IN CASE obj.type = "list" /\ index.type = "int" ->
              IF index.value < 0
                  \/ index.value >= Len(v1.objs[obj.value].elements)
              THEN Throw(v1, OutOfBounds(index.value))
              ELSE Normal(push(v1, v1.objs[obj.value].elements[
                                       index.value + 1]))
         [] obj.type = "string" /\ index.type = "int" ->
              IF index.value < 0 \/ index.value >= Len(obj.value)
              THEN Throw(v1, OutOfBounds(index.value))
              ELSE Normal(push(v1, ValString(CharAt(obj.value, index.value))))
         [] OTHER ->
              Throw(v1, <<"Cannot index ", obj.type, " with ", index.type>>)

\* SET_INDEX without the test of the index: an index that is out of
\* bounds stores the value at the end of the list
opSET_INDEXUnchecked(vm, arg) ==
    IF Len(vm.stack) < 3 THEN Underflow(vm)
    ELSE
    LET index == Peek(vm, 0)
        obj == Peek(vm, 1)
        value == Peek(vm, 2)
        v1 == Drop(vm, 3)
    IN IF obj.type = "list" /\ index.type = "int"
       THEN IF index.value < 0
                \/ index.value >= Len(v1.objs[obj.value].elements)
            THEN Normal([v1 EXCEPT
                            !.objs[obj.value].elements = Append(@, value)])
            ELSE Normal([v1 EXCEPT
                            !.objs[obj.value].elements[index.value + 1] =
                                value])
       ELSE Throw(v1, <<"Cannot set index on ", obj.type>>)
opSET_INDEX(vm, arg) ==
    IF Len(vm.stack) < 3 THEN Underflow(vm)
    ELSE
    LET index == Peek(vm, 0)
        obj == Peek(vm, 1)
        value == Peek(vm, 2)
        v1 == Drop(vm, 3)
    IN IF obj.type = "list" /\ index.type = "int"
       THEN IF index.value < 0
                \/ index.value >= Len(v1.objs[obj.value].elements)
            THEN Throw(v1, OutOfBounds(index.value))
            ELSE Normal([v1 EXCEPT
                            !.objs[obj.value].elements[index.value + 1] =
                                value])
       ELSE Throw(v1, <<"Cannot set index on ", obj.type>>)

\* for (i < argc) values.unshift(valueToString(stack[length - argc + i]))
PrintValues(vm, argc) ==
    LET F[i \in 0..argc] ==
            IF i = 0 THEN <<>>
            ELSE <<valueToString(vm, vm.stack[Len(vm.stack) - argc + i])>>
                     \o F[i - 1]
    IN F[argc]

\* PRINT that leaves its arguments on the stack
opPRINTKeepArgs(vm, argc) ==
    IF Len(vm.stack) < argc THEN ThrowTypeError(vm)
    ELSE Normal([vm EXCEPT !.output =
                     Append(@, Join(PrintValues(vm, argc), " "))])
opPRINT(vm, argc) ==
    IF Len(vm.stack) < argc THEN ThrowTypeError(vm)
    ELSE Normal([Drop(vm, argc) EXCEPT !.output =
                     Append(@, Join(PrintValues(vm, argc), " "))])

opHALT(vm, arg) ==
    IF Len(vm.stack) > 0 THEN Return(Drop(vm, 1), Peek(vm, 0))
    ELSE Return(vm, ValNone)

opNOP(vm, arg) == Normal(vm)

\* The cases of the switch in executeInstruction
VMCases ==
    {"NOP", "HALT", "LOAD_CONST", "LOAD_VAR", "STORE_VAR", "LOAD_GLOBAL",
     "STORE_GLOBAL", "POP", "DUP", "ADD", "SUB", "MUL", "DIV", "MOD", "POW",
     "NEG", "EQ", "NE", "LT", "GT", "LE", "GE", "AND", "OR", "NOT", "JUMP",
     "JUMP_IF_FALSE", "JUMP_IF_TRUE", "CALL", "RETURN", "MAKE_CLOSURE",
     "LOAD_UPVALUE", "STORE_UPVALUE", "MAKE_LIST", "GET_INDEX", "GET_ATTR",
     "SET_ATTR", "SET_INDEX", "NEW_INSTANCE", "PRINT"}

opDefault(vm, op) == Throw(vm, <<"Unknown opcode: ", op>>)

\* ------------------------------------------------------------------------
\* lexer.ts: the Lexer
\* ------------------------------------------------------------------------
\* A source text is a sequence of characters, each a string of length one.
\* NUL stands for '\0', the character peek() yields at the end of the text.
\* The letters are the ASCII ones; the Cyrillic ranges of isAlpha are not
\* among the characters of the texts considered.
NUL == ""

DigitChars == <<"0", "1", "2", "3", "4", "5", "6", "7", "8", "9">>

isDigit(c) == \E i \in 1..Len(DigitChars) : DigitChars[i] = c

isAlpha(c) ==
    \/ c \in {"a", "b", "c", "d", "e", "f", "g", "h", "i", "j", "k", "l", "m",
              "n", "o", "p", "q", "r", "s", "t", "u", "v", "w", "x", "y", "z"}
    \/ c \in {"A", "B", "C", "D", "E", "F", "G", "H", "I", "J", "K", "L", "M",
              "N", "O", "P", "Q", "R", "S", "T", "U", "V", "W", "X", "Y", "Z"}
    \/ c = "_"

isAlphaNumeric(c) == isAlpha(c) \/ isDigit(c)

\* the JavaScript string made of the characters cs
Str(cs) ==
    LET F[i \in 0..Len(cs)] == IF i = 0 THEN "" ELSE F[i - 1] \o cs[i]
    IN F[Len(cs)]

\* tokens.ts KEYWORDS, the ASCII keys
KEYWORDS ==
    [let |-> "LET", var |-> "VAR", const |-> "CONST", fun |-> "FUN",
     return |-> "RETURN", if |-> "IF", else |-> "ELSE", match |-> "MATCH",
     while |-> "WHILE", for |-> "FOR", in |-> "IN", break |-> "BREAK",
     continue |-> "CONTINUE", class |-> "CLASS", trait |-> "TRAIT",
     data |-> "DATA", impl |-> "IMPL", self |-> "SELF", new |-> "NEW",
     Int |-> "TYPE_INT", Float |-> "TYPE_FLOAT", String |-> "TYPE_STRING",
     Bool |-> "TYPE_BOOL", List |-> "TYPE_LIST", Map |-> "TYPE_MAP",
     Option |-> "TYPE_OPTION", Result |-> "TYPE_RESULT", async |-> "ASYNC",
     await |-> "AWAIT", spawn |-> "SPAWN", true |-> "TRUE",
     false |-> "FALSE", none |-> "NONE", some |-> "SOME", and |-> "AND",
     or |-> "OR", not |-> "NOT", print |-> "PRINT"]

\* The Lexer's fields: pos, line, column, tokens; error is the message of
\* the Error it threw
NewLexer == [pos |-> 0, line |-> 1, column |-> 1, tokens |-> <<>>,
             error |-> ""]

Token(type, value, line, column) ==
    [type |-> type, value |-> value, line |-> line, column |-> column]

LexIsAtEnd(src, lx) == lx.pos >= Len(src)

\* peek() and peekNext()
LexPeek(src, lx) == IF LexIsAtEnd(src, lx) THEN NUL ELSE src[lx.pos + 1]

LexPeekNext(src, lx) ==
    IF lx.pos + 1 >= Len(src) THEN NUL ELSE src[lx.pos + 2]

\* advance(), and a match() that succeeds: one character is consumed
LexAdvance(lx) == [lx EXCEPT !.pos = @ + 1, !.column = @ + 1]

\* the test of match(expected)
LexMatches(src, lx, expected) ==
    ~LexIsAtEnd(src, lx) /\ src[lx.pos + 1] = expected

\* addToken(type, value): value is the token's text, as characters
addToken(lx, type, value) ==
    [lx EXCEPT !.tokens =
        Append(@, Token(type, value, lx.line, lx.column - Len(value)))]

\* '\n' seen: this.line++; this.column = 1
LexNewline(lx) == [lx EXCEPT !.line = @ + 1, !.column = 1]

\* the position at which a run of characters that began before pos ends:
\* while (isDigit(peek())) advance(), and the like
DigitRunEnd(src, pos) ==
    CHOOSE j \in pos..Len(src) :
        /\ j = Len(src) \/ ~isDigit(src[j + 1])
        /\ \A i \in pos..(j - 1) : isDigit(src[i + 1])

AlphaNumericRunEnd(src, pos) ==
    CHOOSE j \in pos..Len(src) :
        /\ j = Len(src) \/ ~isAlphaNumeric(src[j + 1])
        /\ \A i \in pos..(j - 1) : isAlphaNumeric(src[i + 1])

LineEnd(src, pos) ==
    CHOOSE j \in pos..Len(src) :
        /\ j = Len(src) \/ src[j + 1] = "\n"
        /\ \A i \in pos..(j - 1) : src[i + 1] # "\n"

\* the lexer after advance() has been called up to position pos, no
\* newline among the characters passed
LexAdvanceTo(lx, pos) ==
    [lx EXCEPT !.pos = pos, !.column = @ + (pos - lx.pos)]

\* number(first): first has been consumed
LexNumber(src, lx) ==
    LET intEnd == DigitRunEnd(src, lx.pos)
        isFloat == /\ intEnd + 1 < Len(src)
                   /\ src[intEnd + 1] = "."
                   /\ isDigit(src[intEnd + 2])
        end == IF isFloat THEN DigitRunEnd(src, intEnd + 1) ELSE intEnd
    IN [LexAdvanceTo(lx, end) EXCEPT !.tokens =
           Append(@, Token(IF isFloat THEN "FLOAT" ELSE "INTEGER",
                           SubSeq(src, lx.pos, end),
                           lx.line, lx.column - 1))]

\* identifier(first): first has been consumed
LexIdentifier(src, lx) ==
    LET end == AlphaNumericRunEnd(src, lx.pos)
        value == SubSeq(src, lx.pos, end)
    IN [LexAdvanceTo(lx, end) EXCEPT !.tokens =
           Append(@, Token(IF Str(value) \in DOMAIN KEYWORDS
                           THEN KEYWORDS[Str(value)] ELSE "IDENTIFIER",
                           value, lx.line, lx.column - 1))]

\* the character an escape sequence stands for
Unescape(escaped) ==
    CASE escaped = "n" -> "\n"
      [] escaped = "t" -> "\t"
      [] escaped = "r" -> "\r"
      [] OTHER -> escaped

\* string(quote), the opening quote consumed: the loop that collects the
\* value, then the closing quote.  start is the lexer at the call.
RECURSIVE LexString(_, _, _, _, _)
LexString(src, lx, quote, value, start) ==
    IF LexIsAtEnd(src, lx)
    THEN [lx EXCEPT !.error =
             "Unterminated string at line " \o NumberToString(start.line)
             \o ", column " \o NumberToString(start.column)]
    ELSE IF LexPeek(src, lx) = quote
    THEN [LexAdvance(lx) EXCEPT !.tokens =
             Append(@, Token("STRING", value, start.line, start.column))]
    ELSE IF LexPeek(src, lx) = "\\"
    THEN \* advance() past the end of the text yields undefined, which
         \* value += turns into the text "undefined"
         LexString(src, LexAdvance(LexAdvance(lx)), quote,
                   IF lx.pos + 1 >= Len(src)
                   THEN value \o <<"u", "n", "d", "e", "f", "i", "n", "e", "d">>
                   ELSE Append(value, Unescape(src[lx.pos + 2])),
                   start)
    ELSE LexString(src,
                   LexAdvance(IF LexPeek(src, lx) = "\n" THEN LexNewline(lx)
                              ELSE lx),
                   quote, Append(value, LexPeek(src, lx)), start)

\* blockComment(): depth is the nesting of the comments that are open
RECURSIVE LexBlockComment(_, _, _)
LexBlockComment(src, lx, depth) ==
    IF depth = 0 \/ LexIsAtEnd(src, lx) THEN lx
    ELSE IF LexPeek(src, lx) = "/" /\ LexPeekNext(src, lx) = "*"
    THEN LexBlockComment(src, LexAdvance(LexAdvance(lx)), depth + 1)
    ELSE IF LexPeek(src, lx) = "*" /\ LexPeekNext(src, lx) = "/"
    THEN LexBlockComment(src, LexAdvance(LexAdvance(lx)), depth - 1)
    ELSE LexBlockComment(src,
             LexAdvance(IF LexPeek(src, lx) = "\n" THEN LexNewline(lx)
                        ELSE lx),
             depth)

\* case c: if (match(second)) addToken(two, c + second) else <otherwise>
LexTwo(src, lx, c, second, two, otherwise) ==
    IF LexMatches(src, lx, second)
    THEN addToken(LexAdvance(lx), two, <<c, second>>)
    ELSE otherwise

\* scanToken(): lx is the lexer after `const c = this.advance()`
scanTokenSwitch(src, lx, c) ==
    CASE c = "(" -> addToken(lx, "LPAREN", <<c>>)
      [] c = ")" -> addToken(lx, "RPAREN", <<c>>)
      [] c = "{" -> addToken(lx, "LBRACE", <<c>>)
      [] c = "}" -> addToken(lx, "RBRACE", <<c>>)
      [] c = "[" -> addToken(lx, "LBRACKET", <<c>>)
      [] c = "]" -> addToken(lx, "RBRACKET", <<c>>)
      [] c = "," -> addToken(lx, "COMMA", <<c>>)
      [] c = ";" -> addToken(lx, "SEMICOLON", <<c>>)
      [] c = "%" -> addToken(lx, "PERCENT", <<c>>)
      [] c = "_" -> IF isAlphaNumeric(LexPeek(src, lx))
                    THEN LexIdentifier(src, lx)
                    ELSE addToken(lx, "UNDERSCORE", <<c>>)
      [] c = "+" -> LexTwo(src, lx, c, "=", "PLUS_ASSIGN",
                           addToken(lx, "PLUS", <<c>>))
      [] c = "-" -> LexTwo(src, lx, c, ">", "ARROW",
                        LexTwo(src, lx, c, "=", "MINUS_ASSIGN",
                               addToken(lx, "MINUS", <<c>>)))
      [] c = "*" -> LexTwo(src, lx, c, "*", "POWER",
                           addToken(lx, "STAR", <<c>>))
      [] c = "/" -> IF LexMatches(src, lx, "/")
                    THEN LexAdvanceTo(lx, LineEnd(src, lx.pos + 1))
                    ELSE IF LexMatches(src, lx, "*")
                    THEN LexBlockComment(src, LexAdvance(lx), 1)
                    ELSE addToken(lx, "SLASH", <<c>>)
      [] c = "=" -> LexTwo(src, lx, c, "=", "EQ",
                        LexTwo(src, lx, c, ">", "FAT_ARROW",
                               addToken(lx, "ASSIGN", <<c>>)))
      [] c = "!" -> LexTwo(src, lx, c, "=", "NE", addToken(lx, "NOT", <<c>>))
      [] c = "<" -> LexTwo(src, lx, c, "=", "LE", addToken(lx, "LT", <<c>>))
      [] c = ">" -> LexTwo(src, lx, c, "=", "GE", addToken(lx, "GT", <<c>>))
         \* a & that no & follows adds no token
      [] c = "&" -> LexTwo(src, lx, c, "&", "AND", lx)
      [] c = "|" -> LexTwo(src, lx, c, "|", "OR",
                        LexTwo(src, lx, c, ">", "PIPE",
                               addToken(lx, "INVALID", <<c>>)))
      [] c = "." -> LexTwo(src, lx, c, ".", "RANGE",
                           addToken(lx, "DOT", <<c>>))
      [] c = ":" -> LexTwo(src, lx, c, ":", "DOUBLE_COLON",
                           addToken(lx, "COLON", <<c>>))
      [] c \in {" ", "\r", "\t"} -> lx
      [] c = "\n" -> LexNewline(lx)
      [] c = "\"" -> LexString(src, lx, c, <<>>, lx)
      [] c = "'" -> LexString(src, lx, c, <<>>, lx)
      [] OTHER -> IF isDigit(c) THEN LexNumber(src, lx)
                  ELSE IF isAlpha(c) THEN LexIdentifier(src, lx)
                  ELSE addToken(lx, "INVALID", <<c>>)

scanToken(src, lx) == scanTokenSwitch(src, LexAdvance(lx), src[lx.pos + 1])

\* tokenize(): while (!isAtEnd()) scanToken(); then the EOF token
RECURSIVE LexLoop(_, _)
LexLoop(src, lx) ==
    IF lx.error # "" THEN lx
    ELSE IF LexIsAtEnd(src, lx) THEN addToken(lx, "EOF", <<>>)
    ELSE LexLoop(src, scanToken(src, lx))

tokenize(src) == LexLoop(src, NewLexer)

\* ------------------------------------------------------------------------
\* parser.ts: the Parser
\* ------------------------------------------------------------------------
\* The parsing methods are operators of the token array ts and of this.pos;
\* they yield the new pos with the node, or the message of the Error they
\* threw.  The texts considered are sequences of let, var and expression
\* statements without type annotations, and hold no `->` and no `=>`.
Parsed(pos, node) == [pos |-> pos, node |-> node, error |-> ""]

\* this.error(token, message)
ParserError(token, message) ==
    "[" \o NumberToString(token.line) \o ":" \o NumberToString(token.column)
        \o "] Error at '" \o Str(token.value) \o "': " \o message

Thrown(pos, token, message) ==
    [pos |-> pos, node |-> NoneLit, error |-> ParserError(token, message)]

\* a construct of the grammar that is not among the texts considered
NotModelled(pos) ==
    [pos |-> pos, node |-> NoneLit, error |-> "not modelled"]

ParserPeek(ts, pos) == ts[pos + 1]

ParserIsAtEnd(ts, pos) == ParserPeek(ts, pos).type = "EOF"

ParserCheck(ts, pos, type) ==
    ~ParserIsAtEnd(ts, pos) /\ ParserPeek(ts, pos).type = type

\* this.pos after advance()
ParserAdvance(ts, pos) == IF ParserIsAtEnd(ts, pos) THEN pos ELSE pos + 1

\* consume(type, message): the token is the node of the result
ParserConsume(ts, pos, type, message) ==
    IF ParserCheck(ts, pos, type) THEN Parsed(pos + 1, ts[pos + 1])
    ELSE Thrown(pos, ParserPeek(ts, pos), message)

\* parseInt of a run of digits
ParseInt(cs) ==
    LET F[i \in 0..Len(cs)] ==
            IF i = 0 THEN 0
            ELSE F[i - 1] * 10
                 + (CHOOSE d \in 0..9 : DigitChars[d + 1] = cs[i])
    IN F[Len(cs)]

\* parseFloat of digits "." digits, for a fraction of zeros: the number
\* before the point
ParseFloat(cs) ==
    ParseInt(SubSeq(cs, 1, (CHOOSE i \in 1..Len(cs) : cs[i] = ".") - 1))

\* parseLiteral(): called with a literal token next
parseLiteral(ts, pos) ==
    LET token == ts[pos + 1]
    IN CASE token.type = "INTEGER" ->
                Parsed(pos + 1, IntLit(ParseInt(token.value)))
         [] token.type = "FLOAT" ->
                Parsed(pos + 1, FloatLit(ParseFloat(token.value)))
         [] token.type = "STRING" ->
                Parsed(pos + 1, StrLit(Str(token.value)))
         [] token.type = "TRUE" -> Parsed(pos + 1, BoolLit(TRUE))
         [] token.type = "FALSE" -> Parsed(pos + 1, BoolLit(FALSE))
         [] token.type = "NONE" -> Parsed(pos + 1, NoneLit)
         [] OTHER -> Thrown(ParserAdvance(ts, pos), token, "Expected literal")

RECURSIVE parseExpression(_, _)

\* do { args.push(parseExpression()) } while (match(COMMA)); the node of
\* the result is the array
RECURSIVE parseExpressionList(_, _, _)
parseExpressionList(ts, pos, args) ==
    Bind(parseExpression(ts, pos), LAMBDA e :
        IF e.error # "" THEN e
        ELSE IF ParserCheck(ts, e.pos, "COMMA")
        THEN parseExpressionList(ts, e.pos + 1, Append(args, e.node))
        ELSE Parsed(e.pos, Append(args, e.node)))

\* if (!check(closer)) { the list }  consume(closer, message)
parseArguments(ts, pos, closer, message) ==
    Bind(IF ParserCheck(ts, pos, closer) THEN Parsed(pos, <<>>)
         ELSE parseExpressionList(ts, pos, <<>>), LAMBDA a :
        IF a.error # "" THEN a
        ELSE Bind(ParserConsume(ts, a.pos, closer, message), LAMBDA c :
                 IF c.error # "" THEN c ELSE Parsed(c.pos, a.node)))

\* parseParenOrLambda(): "(" is next.  With no arrow in the text the
\* attempt to read a parameter list ends with this.pos = startPos, and the
\* parentheses group an expression.
parseParenOrLambda(ts, pos) ==
    IF ParserCheck(ts, pos + 1, "RPAREN")
    THEN IF \/ ParserCheck(ts, pos + 2, "ARROW")
            \/ ParserCheck(ts, pos + 2, "FAT_ARROW")
         THEN NotModelled(pos + 2)
         ELSE Parsed(pos + 2, ListExpr(<<>>))
    ELSE IF \E i \in 1..Len(ts) : ts[i].type \in {"ARROW", "FAT_ARROW"}
    THEN NotModelled(pos + 1)
    ELSE Bind(parseExpression(ts, pos + 1), LAMBDA e :
             IF e.error # "" THEN e
             ELSE Bind(ParserConsume(ts, e.pos, "RPAREN", "Expected \")\""),
                       LAMBDA c :
                      IF c.error # "" THEN c ELSE Parsed(c.pos, e.node)))

parsePrimary(ts, pos) ==
    CASE ParserPeek(ts, pos).type
             \in {"INTEGER", "FLOAT", "STRING", "TRUE", "FALSE", "NONE"} ->
            parseLiteral(ts, pos)
      [] ParserCheck(ts, pos, "LPAREN") -> parseParenOrLambda(ts, pos)
      [] ParserCheck(ts, pos, "LBRACKET") ->
            Bind(parseArguments(ts, pos + 1, "RBRACKET", "Expected \"]\""),
                 LAMBDA a : IF a.error # "" THEN a
                            ELSE Parsed(a.pos, ListExpr(a.node)))
      [] ParserCheck(ts, pos, "NEW") ->
            Bind(ParserConsume(ts, pos + 1, "IDENTIFIER",
                               "Expected class name"), LAMBDA n :
                IF n.error # "" THEN n
                ELSE Bind(ParserConsume(ts, n.pos, "LPAREN",
                                        "Expected \"(\""), LAMBDA l :
                IF l.error # "" THEN l
                ELSE Bind(parseArguments(ts, l.pos, "RPAREN",
                                         "Expected \")\""), LAMBDA a :
                IF a.error # "" THEN a
                ELSE Parsed(a.pos, NewExpr(Str(n.node.value), a.node)))))
      [] ParserCheck(ts, pos, "AWAIT") ->
            Bind(parseExpression(ts, pos + 1), LAMBDA e :
                IF e.error # "" THEN e
                ELSE Parsed(e.pos, AwaitExpr(e.node)))
      [] ParserCheck(ts, pos, "PRINT") ->
            Bind(ParserConsume(ts, pos + 1, "LPAREN",
                               "Expected \"(\" after print"), LAMBDA l :
                IF l.error # "" THEN l
                ELSE Bind(parseArguments(ts, l.pos, "RPAREN",
                                         "Expected \")\""), LAMBDA a :
                IF a.error # "" THEN a
                ELSE Parsed(a.pos, PrintExpr(a.node))))
      [] ParserCheck(ts, pos, "SELF") -> Parsed(pos + 1, Identifier("self"))
      [] ParserCheck(ts, pos, "IDENTIFIER") ->
            Parsed(pos + 1, Identifier(Str(ts[pos + 1].value)))
      [] OTHER -> Thrown(pos, ParserPeek(ts, pos), "Expected expression")

\* the while (true) of parsePostfix(): e is the expression read so far
RECURSIVE PostfixLoop(_, _)
PostfixLoop(ts, e) ==
    IF e.error # "" THEN e
    ELSE IF ParserCheck(ts, e.pos, "LPAREN")
    THEN PostfixLoop(ts,
             Bind(parseArguments(ts, e.pos + 1, "RPAREN",
                                 "Expected \")\" after arguments"),
                  LAMBDA a : IF a.error # "" THEN a
                             ELSE Parsed(a.pos, CallExpr(e.node, a.node))))
    ELSE IF ParserCheck(ts, e.pos, "DOT")
    THEN PostfixLoop(ts,
             Bind(ParserConsume(ts, e.pos + 1, "IDENTIFIER",
                                "Expected property name"),
                  LAMBDA p : IF p.error # "" THEN p
                             ELSE Parsed(p.pos,
                                      MemberExpr(e.node, Str(p.node.value)))))
    ELSE IF ParserCheck(ts, e.pos, "LBRACKET")
    THEN PostfixLoop(ts,
             Bind(parseExpression(ts, e.pos + 1), LAMBDA i :
                 IF i.error # "" THEN i
                 ELSE Bind(ParserConsume(ts, i.pos, "RBRACKET",
                                         "Expected \"]\""), LAMBDA c :
                     IF c.error # "" THEN c
                     ELSE Parsed(c.pos, IndexExpr(e.node, i.node)))))
    ELSE e

parsePostfix(ts, pos) == PostfixLoop(ts, parsePrimary(ts, pos))

RECURSIVE parseUnary(_, _)
parseUnary(ts, pos) ==
    IF ParserCheck(ts, pos, "NOT") \/ ParserCheck(ts, pos, "MINUS")
    THEN Bind(parseUnary(ts, pos + 1), LAMBDA operand :
             IF operand.error # "" THEN operand
             ELSE Parsed(operand.pos,
                      UnaryExpr(Str(ts[pos + 1].value), operand.node)))
    ELSE parsePostfix(ts, pos)

RECURSIVE parsePower(_, _)
parsePower(ts, pos) ==
    Bind(parseUnary(ts, pos), LAMBDA left :
        IF left.error # "" THEN left
        ELSE IF ParserCheck(ts, left.pos, "POWER")
        THEN Bind(parsePower(ts, left.pos + 1), LAMBDA right :
                 IF right.error # "" THEN right
                 ELSE Parsed(right.pos,
                          BinaryExpr("**", left.node, right.node)))
        ELSE left)

\* A left-associative level of the grammar reads an operand, and while an
\* operator of the level is next, the operator and one more operand.  Its
\* loop takes the position of the operand to read and, once an operand has
\* been read (hasLeft), the tree built so far with the operator met after
\* it.
RECURSIVE MultiplicativeLoop(_, _, _, _, _)
MultiplicativeLoop(ts, pos, hasLeft, left, op) ==
    Bind(parsePower(ts, pos), LAMBDA right :
        IF right.error # "" THEN right
        ELSE IF ~ParserIsAtEnd(ts, right.pos)
                /\ ParserPeek(ts, right.pos).type \in {"STAR", "SLASH", "PERCENT"}
        THEN MultiplicativeLoop(ts, right.pos + 1, TRUE,
                 IF hasLeft THEN BinaryExpr(op, left, right.node)
                 ELSE right.node,
                 Str(ts[right.pos + 1].value))
        ELSE IF hasLeft
        THEN Parsed(right.pos, BinaryExpr(op, left, right.node))
        ELSE right)

parseMultiplicative(ts, pos) == MultiplicativeLoop(ts, pos, FALSE, NoneLit, "")

RECURSIVE AdditiveLoop(_, _, _, _, _)
AdditiveLoop(ts, pos, hasLeft, left, op) ==
    Bind(parseMultiplicative(ts, pos), LAMBDA right :
        IF right.error # "" THEN right
        ELSE IF ~ParserIsAtEnd(ts, right.pos)
                /\ ParserPeek(ts, right.pos).type \in {"PLUS", "MINUS"}
        THEN AdditiveLoop(ts, right.pos + 1, TRUE,
                 IF hasLeft THEN BinaryExpr(op, left, right.node)
                 ELSE right.node,
                 Str(ts[right.pos + 1].value))
        ELSE IF hasLeft
        THEN Parsed(right.pos, BinaryExpr(op, left, right.node))
        ELSE right)

parseAdditive(ts, pos) == AdditiveLoop(ts, pos, FALSE, NoneLit, "")

RECURSIVE ComparisonLoop(_, _, _, _, _)
ComparisonLoop(ts, pos, hasLeft, left, op) ==
    Bind(parseAdditive(ts, pos), LAMBDA right :
        IF right.error # "" THEN right
        ELSE IF ~ParserIsAtEnd(ts, right.pos)
                /\ ParserPeek(ts, right.pos).type \in {"LT", "GT", "LE", "GE"}
        THEN ComparisonLoop(ts, right.pos + 1, TRUE,
                 IF hasLeft THEN BinaryExpr(op, left, right.node)
                 ELSE right.node,
                 Str(ts[right.pos + 1].value))
        ELSE IF hasLeft
        THEN Parsed(right.pos, BinaryExpr(op, left, right.node))
        ELSE right)

parseComparison(ts, pos) == ComparisonLoop(ts, pos, FALSE, NoneLit, "")

RECURSIVE EqualityLoop(_, _, _, _, _)
EqualityLoop(ts, pos, hasLeft, left, op) ==
    Bind(parseComparison(ts, pos), LAMBDA right :
        IF right.error # "" THEN right
        ELSE IF ~ParserIsAtEnd(ts, right.pos)
                /\ ParserPeek(ts, right.pos).type \in {"EQ", "NE"}
        THEN EqualityLoop(ts, right.pos + 1, TRUE,
                 IF hasLeft THEN BinaryExpr(op, left, right.node)
                 ELSE right.node,
                 Str(ts[right.pos + 1].value))
        ELSE IF hasLeft
        THEN Parsed(right.pos, BinaryExpr(op, left, right.node))
        ELSE right)

parseEquality(ts, pos) == EqualityLoop(ts, pos, FALSE, NoneLit, "")

RECURSIVE AndLoop(_, _, _, _, _)
AndLoop(ts, pos, hasLeft, left, op) ==
    Bind(parseEquality(ts, pos), LAMBDA right :
        IF right.error # "" THEN right
        ELSE IF ~ParserIsAtEnd(ts, right.pos)
                /\ ParserPeek(ts, right.pos).type \in {"AND"}
        THEN AndLoop(ts, right.pos + 1, TRUE,
                 IF hasLeft THEN BinaryExpr("&&", left, right.node)
                 ELSE right.node,
                 Str(ts[right.pos + 1].value))
        ELSE IF hasLeft
        THEN Parsed(right.pos, BinaryExpr("&&", left, right.node))
        ELSE right)

parseAnd(ts, pos) == AndLoop(ts, pos, FALSE, NoneLit, "")

RECURSIVE OrLoop(_, _, _, _, _)
OrLoop(ts, pos, hasLeft, left, op) ==
    Bind(parseAnd(ts, pos), LAMBDA right :
        IF right.error # "" THEN right
        ELSE IF ~ParserIsAtEnd(ts, right.pos)
                /\ ParserPeek(ts, right.pos).type \in {"OR"}
        THEN OrLoop(ts, right.pos + 1, TRUE,
                 IF hasLeft THEN BinaryExpr("||", left, right.node)
                 ELSE right.node,
                 Str(ts[right.pos + 1].value))
        ELSE IF hasLeft
        THEN Parsed(right.pos, BinaryExpr("||", left, right.node))
        ELSE right)

parseOr(ts, pos) == OrLoop(ts, pos, FALSE, NoneLit, "")

RECURSIVE PipeLoop(_, _, _, _, _)
PipeLoop(ts, pos, hasLeft, left, op) ==
    Bind(parseOr(ts, pos), LAMBDA right :
        IF right.error # "" THEN right
        ELSE IF ~ParserIsAtEnd(ts, right.pos)
                /\ ParserPeek(ts, right.pos).type \in {"PIPE"}
        THEN PipeLoop(ts, right.pos + 1, TRUE,
                 IF hasLeft THEN PipeExpr(left, right.node)
                 ELSE right.node,
                 Str(ts[right.pos + 1].value))
        ELSE IF hasLeft
        THEN Parsed(right.pos, PipeExpr(left, right.node))
        ELSE right)

parsePipe(ts, pos) == PipeLoop(ts, pos, FALSE, NoneLit, "")

RECURSIVE parseAssignment(_, _)
parseAssignment(ts, pos) ==
    Bind(parsePipe(ts, pos), LAMBDA expr :
        IF expr.error # "" THEN expr
        ELSE IF ParserCheck(ts, expr.pos, "ASSIGN")
        THEN Bind(parseAssignment(ts, expr.pos + 1), LAMBDA value :
                 IF value.error # "" THEN value
                 ELSE IF expr.node.kind
                             \in {"Identifier", "MemberExpr", "IndexExpr"}
                 THEN Parsed(value.pos, AssignExpr(expr.node, value.node))
                 ELSE Thrown(value.pos, ts[value.pos],
                             "Invalid assignment target"))
        ELSE expr)

parseExpression(ts, pos) == parseAssignment(ts, pos)

\* parseLetStatement() and parseVarStatement(): the keyword is next
parseDeclaration(ts, pos) ==
    Bind(ParserConsume(ts, pos + 1, "IDENTIFIER", "Expected variable name"),
         LAMBDA name :
        IF name.error # "" THEN name
        ELSE IF ParserCheck(ts, name.pos, "COLON") THEN NotModelled(name.pos)
        ELSE Bind(ParserConsume(ts, name.pos, "ASSIGN",
                      "Expected \"=\" in variable declaration"), LAMBDA eq :
        IF eq.error # "" THEN eq
        ELSE Bind(parseExpression(ts, eq.pos), LAMBDA value :
        IF value.error # "" THEN value
        ELSE Parsed(value.pos,
                 IF ts[pos + 1].type = "VAR"
                 THEN VarStatement(Str(name.node.value), value.node)
                 ELSE LetStatement(Str(name.node.value), value.node)))))

parseStatement(ts, pos) ==
    CASE ParserPeek(ts, pos).type \in {"LET", "CONST", "VAR"} ->
            parseDeclaration(ts, pos)
      [] ParserPeek(ts, pos).type
             \in {"FUN", "ASYNC", "CLASS", "DATA", "TRAIT", "IF", "WHILE",
                  "FOR", "MATCH", "RETURN", "LBRACE"} -> NotModelled(pos)
      [] ParserCheck(ts, pos, "BREAK") -> Parsed(pos + 1, BreakStatement)
      [] ParserCheck(ts, pos, "CONTINUE") ->
            Parsed(pos + 1, ContinueStatement)
      [] OTHER ->
            Bind(parseExpression(ts, pos), LAMBDA e :
                IF e.error # "" THEN e
                ELSE Parsed(e.pos, ExpressionStatement(e.node)))

\* parse(): while (!isAtEnd()) statements.push(parseStatement())
RECURSIVE ParseLoop(_, _, _)
ParseLoop(ts, pos, statements) ==
    IF ParserIsAtEnd(ts, pos) THEN Parsed(pos, Program(statements))
    ELSE Bind(parseStatement(ts, pos), LAMBDA s :
             IF s.error # "" THEN s
             ELSE ParseLoop(ts, s.pos, Append(statements, s.node)))

parse(ts) == ParseLoop(ts, 0, <<>>)

\* index.ts compile() and run(), up to the Compiler: the text is tokenized
\* and parsed; error is the message of the Error the Lexer or the Parser
\* threw
FrontEnd(text) ==
    Bind(tokenize(text), LAMBDA lx :
        IF lx.error # "" THEN [ast |-> Program(<<>>), error |-> lx.error]
        ELSE Bind(parse(lx.tokens), LAMBDA r :
                 [ast |-> IF r.error = "" THEN r.node ELSE Program(<<>>),
                  error |-> r.error]))

\* ------------------------------------------------------------------------
\* Inputs: parsed programs and bytecode modules
\* ------------------------------------------------------------------------
MaxVal == 2


ParamName(i) == "p" \o NumberToString(i)
ParamList(n) == [i \in 1..n |-> Param(ParamName(i))]
\* the argument list 1, 2, ..., n
ArgList(n) == [i \in 1..n |-> IntLit(i)]
\* print(p1) ... print(pn), one statement each
PrintParams(n) ==
    [i \in 1..n |-> ExpressionStatement(PrintExpr(<<Identifier(ParamName(i))>>))]

\* var c = 0; fun make() { c = c + 1; return c }  print(make()) k times
CounterProgram(k) ==
    Program(<<VarStatement("c", IntLit(0)),
              FunctionDecl("make", <<>>,
                  <<ExpressionStatement(
                        AssignExpr(Identifier("c"),
                                   BinaryExpr("+", Identifier("c"), IntLit(1)))),
                    ReturnStatement(TRUE, Identifier("c"))>>)>>
            \o [i \in 1..k |->
                   ExpressionStatement(
                       PrintExpr(<<CallExpr(Identifier("make"), <<>>)>>))])

\* fun f() { var x = v0; let set = (v) -> x = v; let get = () -> x;
\*           set(v1); print(get()); x = v2; print(get()); print(x) }  f()
ClosureProgram(v0, v1, v2) ==
    Program(<<FunctionDecl("f", <<>>,
                <<VarStatement("x", IntLit(v0)),
                  LetStatement("set",
                      LambdaExpr(<<Param("v")>>,
                                 AssignExpr(Identifier("x"), Identifier("v")))),
                  LetStatement("get", LambdaExpr(<<>>, Identifier("x"))),
                  ExpressionStatement(
                      CallExpr(Identifier("set"), <<IntLit(v1)>>)),
                  ExpressionStatement(
                      PrintExpr(<<CallExpr(Identifier("get"), <<>>)>>)),
                  ExpressionStatement(
                      AssignExpr(Identifier("x"), IntLit(v2))),
                  ExpressionStatement(
                      PrintExpr(<<CallExpr(Identifier("get"), <<>>)>>)),
                  ExpressionStatement(PrintExpr(<<Identifier("x")>>))>>),
              ExpressionStatement(CallExpr(Identifier("f"), <<>>))>>)

\* fun g(p1..pa) { print(p1) .. print(pa) }  g(1, .., n)
FunctionCallProgram(a, n) ==
    Program(<<FunctionDecl("g", ParamList(a), PrintParams(a)),
              ExpressionStatement(CallExpr(Identifier("g"), ArgList(n)))>>)

\* fun outer() { let k = 7; let h = (p1..pa) -> { print(k); print(p1) .. };
\*               return h(1, .., n) }  outer()
ClosureCallProgram(a, n) ==
    Program(<<FunctionDecl("outer", <<>>,
                <<LetStatement("k", IntLit(7)),
                  LetStatement("h",
                      LambdaExpr(ParamList(a),
                          BlockStatement(
                              <<ExpressionStatement(
                                    PrintExpr(<<Identifier("k")>>))>>
                              \o PrintParams(a)))),
                  ReturnStatement(TRUE,
                      CallExpr(Identifier("h"), ArgList(n)))>>),
              ExpressionStatement(CallExpr(Identifier("outer"), <<>>))>>)

\* class P(f) { fun m(p1..pa) { print(self.f); print(p1) .. } }
\* let o = new P(9)  o.m(1, .., n)
MethodCallProgram(a, n) ==
    Program(<<ClassDecl("P", <<Param("f")>>,
                <<MethodDecl("m", ParamList(a),
                      <<ExpressionStatement(
                            PrintExpr(<<MemberExpr(Identifier("self"), "f")>>))>>
                      \o PrintParams(a))>>),
              LetStatement("o", NewExpr("P", <<IntLit(9)>>)),
              ExpressionStatement(
                  CallExpr(MemberExpr(Identifier("o"), "m"), ArgList(n)))>>)

SourceInput(name, a, b, c, program) ==
    [origin |-> "source", name |-> name, a |-> a, b |-> b, c |-> c,
     program |-> program, file |-> <<>>]

CounterInputs == [k \in 1..MaxCalls |->
                     SourceInput("counter", k, 0, 0, CounterProgram(k))]

\* the pairs and triples of small numbers, listed
Pairs(n) == [i \in 1..((n + 1) * (n + 1)) |->
                <<(i - 1) \div (n + 1), (i - 1) % (n + 1)>>]
Triples(n) == [i \in 1..((n + 1) * (n + 1) * (n + 1)) |->
                  <<(i - 1) \div ((n + 1) * (n + 1)),
                    ((i - 1) \div (n + 1)) % (n + 1),
                    (i - 1) % (n + 1)>>]

ClosureInputs ==
    [i \in 1..Len(Triples(MaxVal)) |->
        LET t == Triples(MaxVal)[i]
        IN SourceInput("closure", t[1], t[2], t[3],
                       ClosureProgram(t[1], t[2], t[3]))]

FunctionCallInputs ==
    [i \in 1..Len(Pairs(MaxArgs)) |->
        LET t == Pairs(MaxArgs)[i]
        IN SourceInput("call-function", t[1], t[2], 0,
                       FunctionCallProgram(t[1], t[2]))]

ClosureCallInputs ==
    [i \in 1..Len(Pairs(MaxArgs)) |->
        LET t == Pairs(MaxArgs)[i]
        IN SourceInput("call-closure", t[1], t[2], 0,
                       ClosureCallProgram(t[1], t[2]))]

MethodCallInputs ==
    [i \in 1..Len(Pairs(MaxArgs)) |->
        LET t == Pairs(MaxArgs)[i]
        IN SourceInput("call-method", t[1], t[2], 0,
                       MethodCallProgram(t[1], t[2]))]

\* ---- programs with branches, loops, matches and attribute stores ----
MaxStmts == 2

PrintStmt(e) == ExpressionStatement(PrintExpr(<<e>>))
Cmp(o, n) == BinaryExpr(o, Identifier("g"), IntLit(n))

\* if g < 1 { let t = 1  print(t) }
IfLet ==
    IfStatement(Cmp("<", 1),
                <<LetStatement("t", IntLit(1)), PrintStmt(Identifier("t"))>>,
                FALSE, NoneLit)
\* if g == 0 { print("a") } else { print("b") }
IfElse ==
    IfStatement(Cmp("==", 0), <<PrintStmt(StrLit("a"))>>,
                TRUE, BlockStatement(<<PrintStmt(StrLit("b"))>>))
\* if g > 1 { print("a") } else if g >= 1 { print("c") } else { print("d") }
IfElseIf ==
    IfStatement(Cmp(">", 1), <<PrintStmt(StrLit("a"))>>, TRUE,
        IfStatement(Cmp(">=", 1), <<PrintStmt(StrLit("c"))>>,
                    TRUE, BlockStatement(<<PrintStmt(StrLit("d"))>>)))
\* while g < 2 { g = g + 1 }
WhileLoop ==
    WhileStatement(Cmp("<", 2),
        <<ExpressionStatement(AssignExpr(Identifier("g"), Cmp("+", 1)))>>)
\* match g { 0 -> print("z"), x if x != 1 -> print(x), _ -> print("w") }
Match ==
    MatchStatement(Identifier("g"),
        <<MatchArm(LiteralPattern(IntLit(0)), FALSE, NoneLit,
                   PrintExpr(<<StrLit("z")>>)),
          MatchArm(IdentifierPattern("x"), TRUE,
                   BinaryExpr("!=", Identifier("x"), IntLit(1)),
                   PrintExpr(<<Identifier("x")>>)),
          MatchArm(WildcardPattern, FALSE, NoneLit,
                   PrintExpr(<<StrLit("w")>>))>>)
\* for v in g { print(v) }
ForLoop == ForStatement("v", Identifier("g"), <<PrintStmt(Identifier("v"))>>)
\* o.f = g <= 1 && !(g != 0) || false
SetAttr ==
    ExpressionStatement(
        AssignExpr(MemberExpr(Identifier("o"), "f"),
            BinaryExpr("||",
                BinaryExpr("&&", Cmp("<=", 1), UnaryExpr("!", Cmp("!=", 0))),
                BoolLit(FALSE))))
\* print(g - 1)
PrintSub == PrintStmt(Cmp("-", 1))

Pool == <<IfLet, IfElse, IfElseIf, WhileLoop, Match, ForLoop, SetAttr,
          PrintSub>>

\* The sequences of n statements of the pool, listed: every ordered pair of
\* statements, continued through the pool with the stride of the pair
StmtSeqs(n) ==
    [k \in 1..(Len(Pool) * Len(Pool)) |->
        LET first == (k - 1) \div Len(Pool)
            stride == ((k - 1) % Len(Pool)) + Len(Pool) - first
        IN [p \in 1..n |->
               Pool[((first + (p - 1) * stride) % Len(Pool)) + 1]]]

Wrappers == <<"main", "function", "lambda", "method">>

\* var g = v  class P(f) { <methods> }  let o = new P(1)
Prelude(v, methods) ==
    <<VarStatement("g", IntLit(v)),
      ClassDecl("P", <<Param("f")>>, methods),
      LetStatement("o", NewExpr("P", <<IntLit(1)>>))>>

\* The statements at the top level, or as the body of a function, of a
\* lambda or of a method that is then called
Wrapped(wrapper, v, stmts) ==
    CASE wrapper = "main" -> Program(Prelude(v, <<>>) \o stmts)
      [] wrapper = "function" ->
            Program(Prelude(v, <<>>)
                \o <<FunctionDecl("w", <<>>, stmts),
                     ExpressionStatement(CallExpr(Identifier("w"), <<>>))>>)
      [] wrapper = "lambda" ->
            Program(Prelude(v, <<>>)
                \o <<LetStatement("h",
                         LambdaExpr(<<>>, BlockStatement(stmts))),
                     ExpressionStatement(CallExpr(Identifier("h"), <<>>))>>)
      [] wrapper = "method" ->
            Program(Prelude(v, <<MethodDecl("m", <<>>, stmts)>>)
                \o <<ExpressionStatement(
                         CallExpr(MemberExpr(Identifier("o"), "m"), <<>>))>>)

BranchInputs ==
    LET seqs == StmtSeqs(MaxStmts)
        nw == Len(Wrappers)
        nv == MaxVal + 1
    IN [i \in 1..(Len(seqs) * nw * nv) |->
           LET q == ((i - 1) \div (nw * nv)) + 1
               w == (((i - 1) \div nv) % nw) + 1
               v == (i - 1) % nv
           IN SourceInput("branch", q, w, v, Wrapped(Wrappers[w], v, seqs[q]))]

\* A program with a class, a method, and closures over a local: the kinds
\* of constant a module can hold
KindsInputs ==
    <<SourceInput("kinds", 0, 0, 0,
          Program(Prelude(0, <<MethodDecl("m", <<>>, <<PrintSub>>)>>)
                      \o ClosureProgram(0, 1, 2).body))>>

\* ---- programs with a pipe ----
PipeLefts ==
    <<IntLit(10),
      PipeExpr(IntLit(10), Identifier("dbl")),
      CallExpr(Identifier("inc"), <<IntLit(2)>>)>>

PipeRights ==
    <<Identifier("dbl"),
      Identifier("inc"),
      LambdaExpr(<<Param("x")>>,
                 BlockStatement(<<ReturnStatement(TRUE, Identifier("x"))>>)),
      Identifier("__print__")>>

\* fun dbl(x) { return x + x }  fun inc(x) { return x + 1 }  print(e)
PipeProgram(e) ==
    Program(<<FunctionDecl("dbl", <<Param("x")>>,
                  <<ReturnStatement(TRUE,
                        BinaryExpr("+", Identifier("x"), Identifier("x")))>>),
              FunctionDecl("inc", <<Param("x")>>,
                  <<ReturnStatement(TRUE,
                        BinaryExpr("+", Identifier("x"), IntLit(1)))>>),
              PrintStmt(e)>>)

\* print(a |> b), with a the i-th left and b the j-th right operand
PipeInputs ==
    [k \in 1..(Len(PipeLefts) * Len(PipeRights)) |->
        LET i == ((k - 1) \div Len(PipeRights)) + 1
            j == ((k - 1) % Len(PipeRights)) + 1
        IN SourceInput("pipe", i, j, 0,
                       PipeProgram(PipeExpr(PipeLefts[i], PipeRights[j])))]

\* ---- programs with arithmetic ----
\* 5, 4, 0, -2, 2.0, 0.0 and "a": numbers whose quotients have decimal
\* expansions that end
ArithOperands ==
    <<IntLit(5), IntLit(4), IntLit(0), UnaryExpr("-", IntLit(2)),
      FloatLit(2), FloatLit(0), StrLit("a")>>

ArithOperators == <<"+", "-", "*", "/", "%", "**">>

\* print(x op y), with x the i-th and y the j-th operand
ArithInputs ==
    [k \in 1..(Len(ArithOperands) * Len(ArithOperands) * Len(ArithOperators))
        |->
        LET i == ((k - 1) \div (Len(ArithOperands) * Len(ArithOperators))) + 1
            j == (((k - 1) \div Len(ArithOperators)) % Len(ArithOperands)) + 1
            o == ((k - 1) % Len(ArithOperators)) + 1
        IN SourceInput("arith", i, j, o,
               Program(<<PrintStmt(BinaryExpr(ArithOperators[o],
                                              ArithOperands[i],
                                              ArithOperands[j]))>>))]

\* ---- programs with lists ----
MaxList == 2

\* the literal of an index from -1 up
IndexLit(i) == IF i < 0 THEN UnaryExpr("-", IntLit(-i)) ELSE IntLit(i)

\* let l = [1, .., n]  print(l[i])  print(l)
ListGetProgram(n, i) ==
    Program(<<LetStatement("l", ListExpr(ArgList(n))),
              PrintStmt(IndexExpr(Identifier("l"), IndexLit(i))),
              PrintStmt(Identifier("l"))>>)

\* let l = [1, .., n]  l[i] = 9  print(l)
ListSetProgram(n, i) ==
    Program(<<LetStatement("l", ListExpr(ArgList(n))),
              ExpressionStatement(
                  AssignExpr(IndexExpr(Identifier("l"), IndexLit(i)),
                             IntLit(9))),
              PrintStmt(Identifier("l"))>>)

\* lists of 0 to MaxList elements, indexed from -1 to MaxList
ListInputs ==
    [k \in 1..(2 * (MaxList + 1) * (MaxList + 2)) |->
        LET n == ((k - 1) \div 2) \div (MaxList + 2)
            i == (((k - 1) \div 2) % (MaxList + 2)) - 1
        IN IF k % 2 = 1
           THEN SourceInput("list-get", n, i, 0, ListGetProgram(n, i))
           ELSE SourceInput("list-set", n, i, 0, ListSetProgram(n, i))]

\* ---- programs with a match ----
Arm(p, label) == MatchArm(p, FALSE, NoneLit, PrintExpr(<<StrLit(label)>>))

\* n if n op k => print(label)
GuardedArm(o, k, label) ==
    MatchArm(IdentifierPattern("n"), TRUE,
             BinaryExpr(o, Identifier("n"), IntLit(k)),
             PrintExpr(<<StrLit(label)>>))

MatchArms ==
    <<  \* 0 => "z", n if n > 1 => "b", _ => "w"
      <<Arm(LiteralPattern(IntLit(0)), "z"), GuardedArm(">", 1, "b"),
        Arm(WildcardPattern, "w")>>,
        \* 1 => "a", 1 => "b", n if n == 2 => "c"
      <<Arm(LiteralPattern(IntLit(1)), "a"),
        Arm(LiteralPattern(IntLit(1)), "b"), GuardedArm("==", 2, "c")>>,
        \* n if n < 1 => "a", n => "b", _ => "w"
      <<GuardedArm("<", 1, "a"), Arm(IdentifierPattern("n"), "b"),
        Arm(WildcardPattern, "w")>>,
        \* 1..2 => "c", _ => "w"
      <<Arm(RangePattern(IntLit(1), IntLit(2)), "c"),
        Arm(WildcardPattern, "w")>>,
        \* 0..1 => "d", 2 => "z"
      <<Arm(RangePattern(IntLit(0), IntLit(1)), "d"),
        Arm(LiteralPattern(IntLit(2)), "z")>> >>

MaxSubject == 3

\* match v { arms }, at the top level or in a function that is called
MatchInputs ==
    [k \in 1..(Len(MatchArms) * (MaxSubject + 1) * 2) |->
        LET q == ((k - 1) \div (2 * (MaxSubject + 1))) + 1
            v == ((k - 1) \div 2) % (MaxSubject + 1)
        IN IF k % 2 = 1
           THEN SourceInput("match", q, v, 0,
                    Program(<<MatchStatement(IntLit(v), MatchArms[q])>>))
           ELSE SourceInput("match", q, v, 1,
                    Program(<<FunctionDecl("w", <<>>,
                                  <<MatchStatement(IntLit(v), MatchArms[q])>>),
                              ExpressionStatement(
                                  CallExpr(Identifier("w"), <<>>))>>))]

\* ---- programs with break and continue ----
\* var g = 0  while g < 2 { print(g)  g = g + 1  <exit>  print("z") }
LoopExitBody(exit) ==
    <<VarStatement("g", IntLit(0)),
      WhileStatement(BinaryExpr("<", Identifier("g"), IntLit(2)),
          <<PrintStmt(Identifier("g")),
            ExpressionStatement(AssignExpr(Identifier("g"), Cmp("+", 1))),
            exit,
            PrintStmt(StrLit("z"))>>)>>

\* a loop whose body reaches break (a = 0) or continue (a = 1), with the
\* statement alone or inside an if, at the top level or in a function that
\* is called
LoopExitInputs ==
    [k \in 1..8 |->
        LET exit == IF (k - 1) % 2 = 0 THEN BreakStatement
                    ELSE ContinueStatement
            stmt == IF ((k - 1) \div 2) % 2 = 0 THEN exit
                    ELSE IfStatement(BoolLit(TRUE), <<exit>>, FALSE, NoneLit)
        IN IF (k - 1) \div 4 = 0
           THEN SourceInput("loop-exit", (k - 1) % 2, ((k - 1) \div 2) % 2, 0,
                    Program(LoopExitBody(stmt)))
           ELSE SourceInput("loop-exit", (k - 1) % 2, ((k - 1) \div 2) % 2, 1,
                    Program(<<FunctionDecl("w", <<>>, LoopExitBody(stmt)),
                              ExpressionStatement(
                                  CallExpr(Identifier("w"), <<>>))>>))]

\* ---- programs that instantiate a class ----
\* fun mk() { return new C(1, .., n) }, compiled before class C
MakeC(n) ==
    FunctionDecl("mk", <<>>, <<ReturnStatement(TRUE, NewExpr("C", ArgList(n)))>>)

ClassC == ClassDecl("C", <<Param("p1")>>, <<>>)

\* new C(1, .., n) textually before class C(p1) {}:
\*   0: fun mk() { .. }  class C  let o = mk()  print(o)
\*   1: fun mk() { .. }  let o = mk()  class C  print(o)
\*   2: let o = new C(..)  class C  print(o)
ForwardNewProgram(variant, n) ==
    CASE variant = 0 ->
            Program(<<MakeC(n), ClassC,
                      LetStatement("o", CallExpr(Identifier("mk"), <<>>)),
                      PrintStmt(Identifier("o"))>>)
      [] variant = 1 ->
            Program(<<MakeC(n),
                      LetStatement("o", CallExpr(Identifier("mk"), <<>>)),
                      ClassC, PrintStmt(Identifier("o"))>>)
      [] variant = 2 ->
            Program(<<LetStatement("o", NewExpr("C", ArgList(n))),
                      ClassC, PrintStmt(Identifier("o"))>>)

ForwardNewInputs ==
    [k \in 1..6 |->
        SourceInput("forward-new", (k - 1) \div 2, (k - 1) % 2, 0,
                    ForwardNewProgram((k - 1) \div 2, (k - 1) % 2))]

MaxFields == 2

\* the i-th attribute a program reads: the method m for 0, the field pi
AttrRead(i) == IF i = 0 THEN "m" ELSE ParamName(i)

\* class C(p1, .., pk) { fun m() { } }  let o = new C(1, .., n)
\* print(o.<attr>)  print("z")
NewProgram(k, n, attr) ==
    Program(<<ClassDecl("C", ParamList(k), <<MethodDecl("m", <<>>, <<>>)>>),
              LetStatement("o", NewExpr("C", ArgList(n))),
              PrintStmt(MemberExpr(Identifier("o"), attr)),
              PrintStmt(StrLit("z"))>>)

\* classes of 0 to MaxFields fields instantiated with 0 to MaxArgs
\* arguments; the attribute read is m or one of p1 .. p(MaxFields + 1)
NewInputs ==
    [i \in 1..((MaxFields + 1) * (MaxArgs + 1) * (MaxFields + 2)) |->
        LET k == (i - 1) \div ((MaxArgs + 1) * (MaxFields + 2))
            n == ((i - 1) \div (MaxFields + 2)) % (MaxArgs + 1)
            r == (i - 1) % (MaxFields + 2)
        IN SourceInput("new", k, n, r, NewProgram(k, n, AttrRead(r)))]

\* ---- programs with a closure nested in a closure ----
\* fun f() { var x = v
\*           let g = () -> { var y = 9  [print(x)]  let h = () -> x
\*                           return h() }
\*           print(g()) }
\* f()
\* x is slot 0 of f and y is slot 0 of g; g refers to x itself when
\* direct is TRUE
ChainProgram(v, direct) ==
    Program(<<FunctionDecl("f", <<>>,
                <<VarStatement("x", IntLit(v)),
                  LetStatement("g",
                      LambdaExpr(<<>>,
                          BlockStatement(
                              <<VarStatement("y", IntLit(9))>>
                              \o (IF direct THEN <<PrintStmt(Identifier("x"))>>
                                  ELSE <<>>)
                              \o <<LetStatement("h",
                                       LambdaExpr(<<>>, Identifier("x"))),
                                   ReturnStatement(TRUE,
                                       CallExpr(Identifier("h"), <<>>))>>))),
                  PrintStmt(CallExpr(Identifier("g"), <<>>))>>),
              ExpressionStatement(CallExpr(Identifier("f"), <<>>))>>)

ChainInputs ==
    [k \in 1..(2 * (MaxVal + 1)) |->
        SourceInput("chain", (k - 1) \div 2, (k - 1) % 2, 0,
                    ChainProgram((k - 1) \div 2, (k - 1) % 2 = 1))]

\* ---- programs that reuse the name an identifier pattern binds ----
\* [var n = 7]
\* fun w() { [var n = 7]
\*           match v { n if n > 1 => print(n), _ => print(n) }
\*           print(n) }
\* w()
\* The outer n is a global when outerLocal is FALSE and a local of w
\* otherwise.
OuterN == 7

ArmScopeProgram(v, outerLocal) ==
    Program((IF outerLocal THEN <<>> ELSE <<VarStatement("n", IntLit(OuterN))>>)
            \o <<FunctionDecl("w", <<>>,
                    (IF outerLocal THEN <<VarStatement("n", IntLit(OuterN))>>
                     ELSE <<>>)
                    \o <<MatchStatement(IntLit(v),
                             <<MatchArm(IdentifierPattern("n"), TRUE,
                                        BinaryExpr(">", Identifier("n"),
                                                   IntLit(1)),
                                        PrintExpr(<<Identifier("n")>>)),
                               MatchArm(WildcardPattern, FALSE, NoneLit,
                                        PrintExpr(<<Identifier("n")>>))>>),
                         PrintStmt(Identifier("n"))>>),
                 ExpressionStatement(CallExpr(Identifier("w"), <<>>))>>)

ArmScopeInputs ==
    [k \in 1..(2 * (MaxSubject + 1)) |->
        SourceInput("arm-scope", (k - 1) \div 2, (k - 1) % 2, 0,
                    ArmScopeProgram((k - 1) \div 2, (k - 1) % 2 = 1))]

\* ---- programs with a chained assignment ----
\* The targets a program assigns to: two globals, two locals of a function,
\* two variables a closure captured, a field of two instances, two
\* elements of a list; "text" is the program of "global" as a source text
AssignKinds == <<"global", "local", "upvalue", "member", "index", "text">>

\* <ta> = <tb> = v   print(<ta>)   print(<tb>)
AssignBody(ta, tb, v) ==
    <<ExpressionStatement(AssignExpr(ta, AssignExpr(tb, IntLit(v)))),
      PrintStmt(ta), PrintStmt(tb)>>

AssignVars == <<VarStatement("a", IntLit(0)), VarStatement("b", IntLit(0))>>

AssignProgram(kind, v) ==
    CASE kind = "global" ->
            \* var a = 0  var b = 0  a = b = v  print(a)  print(b)
            Program(AssignVars
                    \o AssignBody(Identifier("a"), Identifier("b"), v))
      [] kind = "local" ->
            \* fun w() { var a = 0  var b = 0  a = b = v  ... }  w()
            Program(<<FunctionDecl("w", <<>>,
                          AssignVars
                          \o AssignBody(Identifier("a"), Identifier("b"), v)),
                      ExpressionStatement(CallExpr(Identifier("w"), <<>>))>>)
      [] kind = "upvalue" ->
            \* fun w() { var a = 0  var b = 0
            \*           let g = () -> { a = b = v  ... }  g() }  w()
            Program(<<FunctionDecl("w", <<>>,
                          AssignVars
                          \o <<LetStatement("g",
                                   LambdaExpr(<<>>,
                                       BlockStatement(
                                           AssignBody(Identifier("a"),
                                                      Identifier("b"), v)))),
                               ExpressionStatement(
                                   CallExpr(Identifier("g"), <<>>))>>),
                      ExpressionStatement(CallExpr(Identifier("w"), <<>>))>>)
      [] kind = "member" ->
            \* class C(p1) { }  let o = new C(0)  let q = new C(0)
            \* o.p1 = q.p1 = v  print(o.p1)  print(q.p1)
            Program(<<ClassDecl("C", ParamList(1), <<>>),
                      LetStatement("o", NewExpr("C", <<IntLit(0)>>)),
                      LetStatement("q", NewExpr("C", <<IntLit(0)>>))>>
                    \o AssignBody(MemberExpr(Identifier("o"), ParamName(1)),
                                  MemberExpr(Identifier("q"), ParamName(1)),
                                  v))
      [] kind = "index" ->
            \* let l = [0, 0]  l[0] = l[1] = v  print(l[0])  print(l[1])
            Program(<<LetStatement("l", ListExpr(<<IntLit(0), IntLit(0)>>))>>
                    \o AssignBody(IndexExpr(Identifier("l"), IntLit(0)),
                                  IndexExpr(Identifier("l"), IntLit(1)), v))

\* var a = 0  var b = 0  a = b = v  print(a)  print(b), one statement a
\* line
AssignText(v) ==
    <<"v", "a", "r", " ", "a", " ", "=", " ", "0", "\n",
      "v", "a", "r", " ", "b", " ", "=", " ", "0", "\n",
      "a", " ", "=", " ", "b", " ", "=", " ", DigitChars[v + 1], "\n",
      "p", "r", "i", "n", "t", "(", "a", ")", "\n",
      "p", "r", "i", "n", "t", "(", "b", ")">>

\* every kind of target with the values 1 .. MaxVal + 1
AssignInputs ==
    [i \in 1..(Len(AssignKinds) * (MaxVal + 1)) |->
        LET k == ((i - 1) \div (MaxVal + 1)) + 1
            v == ((i - 1) % (MaxVal + 1)) + 1
        IN IF AssignKinds[k] = "text"
           THEN [origin |-> "text", name |-> "assign", a |-> k, b |-> v,
                 c |-> 0, text |-> AssignText(v), file |-> <<>>]
           ELSE SourceInput("assign", k, v, 0,
                            AssignProgram(AssignKinds[k], v))]

\* ---- source texts ----
TextInput(name, a, b, c, text) ==
    [origin |-> "text", name |-> name, a |-> a, b |-> b, c |-> c,
     text |-> text, file |-> <<>>]

\* the characters of print(<arg>)
PrintText(arg) == <<"p", "r", "i", "n", "t", "(">> \o arg \o <<")">>

\* the characters of the decimal numeral of n, n < 10
DigitText(n) == <<DigitChars[n + 1]>>

\* Characters that start no token
InvalidChars == <<"&", "|", "#", "@">>

\* The places a text has the character x at:
\*   1  print(1) x print(2)     between two statements
\*   2  print(1 x 2)            between two operands
\*   3  print(1) x              at the end of the text
\*   4  x print(1)              at the start of the text
\*   5  print(1)x               at the end, no blank before it
\* and, where x starts no token of its own,
\*   6  print("x")              in a string literal
\*   7  print(1) // x           in a comment
\*   8  print(1 xx 2)           doubled: && and || are operators
InvalidCharText(x, place) ==
    CASE place = 1 ->
            PrintText(<<"1">>) \o <<" ", x, " ">> \o PrintText(<<"2">>)
      [] place = 2 -> PrintText(<<"1", " ", x, " ", "2">>)
      [] place = 3 -> PrintText(<<"1">>) \o <<" ", x>>
      [] place = 4 -> <<x, " ">> \o PrintText(<<"1">>)
      [] place = 5 -> PrintText(<<"1">>) \o <<x>>
      [] place = 6 -> PrintText(<<"\"", x, "\"">>)
      [] place = 7 -> PrintText(<<"1">>) \o <<" ", "/", "/", " ", x>>
      [] place = 8 -> PrintText(<<"1", " ", x, x, " ", "2">>)

InvalidCharPlaces == 1..8

\* the places where x is outside string literals and comments, alone
StrayPlaces == 1..5

InvalidCharInputs ==
    [i \in 1..(Len(InvalidChars) * Cardinality(InvalidCharPlaces)) |->
        LET k == ((i - 1) \div Cardinality(InvalidCharPlaces)) + 1
            place == ((i - 1) % Cardinality(InvalidCharPlaces)) + 1
        IN TextInput("invalid-char", k, place, 0,
                     InvalidCharText(InvalidChars[k], place))]

\* ---- texts with ** next to a unary operator ----
\* The forms of the expression a text prints, x and y numerals:
\*   1  - x ** y      2  ! x ** y      3  x ** y ** 2
\*   4  - a ** b, after let a = x  let b = y
PowerForms == 1..4

PowerText(form, x, y) ==
    CASE form = 1 ->
            PrintText(<<"-", " ">> \o DigitText(x) \o <<" ", "*", "*", " ">>
                      \o DigitText(y))
      [] form = 2 ->
            PrintText(<<"!", " ">> \o DigitText(x) \o <<" ", "*", "*", " ">>
                      \o DigitText(y))
      [] form = 3 ->
            PrintText(DigitText(x) \o <<" ", "*", "*", " ">> \o DigitText(y)
                      \o <<" ", "*", "*", " ", "2">>)
      [] form = 4 ->
            <<"l", "e", "t", " ", "a", " ", "=", " ">> \o DigitText(x)
            \o <<"\n", "l", "e", "t", " ", "b", " ", "=", " ">>
            \o DigitText(y) \o <<"\n">>
            \o PrintText(<<"-", "a", "*", "*", "b">>)

\* every form with x and y in 0 .. MaxVal
PowerInputs ==
    [i \in 1..(Cardinality(PowerForms) * (MaxVal + 1) * (MaxVal + 1)) |->
        LET form == ((i - 1) \div ((MaxVal + 1) * (MaxVal + 1))) + 1
            x == ((i - 1) \div (MaxVal + 1)) % (MaxVal + 1)
            y == (i - 1) % (MaxVal + 1)
        IN TextInput("power", form, x, y, PowerText(form, x, y))]

\* ---- programs with a counter closure made by a factory ----
\* fun make() { var n = 0; return () -> { n = n + 1; return n } }
\* let c = make(); let d = make(); print(c()) k times;
\* with other = 1 also: print(d()); print(c())
FactoryProgram(k, other) ==
    Program(<<FunctionDecl("make", <<>>,
                <<VarStatement("n", IntLit(0)),
                  ReturnStatement(TRUE,
                      LambdaExpr(<<>>,
                          BlockStatement(
                              <<ExpressionStatement(
                                    AssignExpr(Identifier("n"),
                                        BinaryExpr("+", Identifier("n"),
                                                   IntLit(1)))),
                                ReturnStatement(TRUE, Identifier("n"))>>)))>>),
              LetStatement("c", CallExpr(Identifier("make"), <<>>)),
              LetStatement("d", CallExpr(Identifier("make"), <<>>))>>
            \o [i \in 1..k |->
                   ExpressionStatement(
                       PrintExpr(<<CallExpr(Identifier("c"), <<>>)>>))]
            \o (IF other = 1
                THEN <<ExpressionStatement(
                           PrintExpr(<<CallExpr(Identifier("d"), <<>>)>>)),
                       ExpressionStatement(
                           PrintExpr(<<CallExpr(Identifier("c"), <<>>)>>))>>
                ELSE <<>>))

FactoryInputs ==
    [i \in 1..(2 * MaxCalls) |->
        SourceInput("factory", ((i - 1) \div 2) + 1, (i - 1) % 2, 0,
                    FactoryProgram(((i - 1) \div 2) + 1, (i - 1) % 2))]

\* ---- programs with declarations ----
\* data D(x, y)
\* fun f(a) { var i = 0
\*            while i < a { if i == 1 { return i } else { i = i + 1 } }
\*            fun g() { let t = [1, 2]  t[0] = 3 }
\*            g() }
\* print(f(v))  let p = new D(1, 2)  p.x = v
DeclProgram(v) ==
    Program(<<DataDecl("D", <<Param("x"), Param("y")>>),
              FunctionDecl("f", <<Param("a")>>,
                <<VarStatement("i", IntLit(0)),
                  WhileStatement(
                      BinaryExpr("<", Identifier("i"), Identifier("a")),
                      <<IfStatement(
                            BinaryExpr("==", Identifier("i"), IntLit(1)),
                            <<ReturnStatement(TRUE, Identifier("i"))>>,
                            TRUE,
                            BlockStatement(
                                <<ExpressionStatement(
                                      AssignExpr(Identifier("i"),
                                          BinaryExpr("+", Identifier("i"),
                                                     IntLit(1))))>>))>>),
                  FunctionDecl("g", <<>>,
                      <<LetStatement("t", ListExpr(<<IntLit(1), IntLit(2)>>)),
                        ExpressionStatement(
                            AssignExpr(IndexExpr(Identifier("t"), IntLit(0)),
                                       IntLit(3)))>>),
                  ExpressionStatement(CallExpr(Identifier("g"), <<>>))>>),
              PrintStmt(CallExpr(Identifier("f"), <<IntLit(v)>>)),
              LetStatement("p", NewExpr("D", <<IntLit(1), IntLit(2)>>)),
              ExpressionStatement(
                  AssignExpr(MemberExpr(Identifier("p"), "x"), IntLit(v)))>>)

DeclInputs ==
    [i \in 1..(MaxVal + 1) |->
        SourceInput("decl", i - 1, 0, 0, DeclProgram(i - 1))]

\* ---- programs that print several values ----
\* print(1, .., n)
PrintManyInputs ==
    [i \in 1..(MaxArgs - 1) |->
        SourceInput("print-many", i + 1, 0, 0,
                    Program(<<ExpressionStatement(PrintExpr(ArgList(i + 1)))>>))]

\* ---- programs with a class declared inside a function ----
\* fun f() { var x = v
\*           class Q() { fun m() { print(x) } }      (store = 0)
\*           class Q() { fun m() { x = 1  print(x) } }  (store = 1)
\*           let o = new Q()  o.m()  print(x) }
\* f()
InnerClassProgram(v, store) ==
    Program(<<FunctionDecl("f", <<>>,
                <<VarStatement("x", IntLit(v)),
                  ClassDecl("Q", <<>>,
                      <<MethodDecl("m", <<>>,
                            (IF store = 1
                             THEN <<ExpressionStatement(
                                        AssignExpr(Identifier("x"),
                                                   IntLit(1)))>>
                             ELSE <<>>)
                            \o <<PrintStmt(Identifier("x"))>>)>>),
                  LetStatement("o", NewExpr("Q", <<>>)),
                  ExpressionStatement(
                      CallExpr(MemberExpr(Identifier("o"), "m"), <<>>)),
                  PrintStmt(Identifier("x"))>>),
              ExpressionStatement(CallExpr(Identifier("f"), <<>>))>>)

InnerClassInputs ==
    [i \in 1..(2 * (MaxVal + 1)) |->
        SourceInput("inner-class", (i - 1) \div 2, (i - 1) % 2, 0,
                    InnerClassProgram((i - 1) \div 2, (i - 1) % 2))]

\* ---- programs with a logical operator ----
\* fun l() { print("l")  return x }  fun r() { print("r")  return y }
\* print(l() o r())
LogicOps == <<"&&", "||">>

LogicProgram(o, x, y) ==
    Program(<<FunctionDecl("l", <<>>,
                  <<PrintStmt(StrLit("l")),
                    ReturnStatement(TRUE, IntLit(x))>>),
              FunctionDecl("r", <<>>,
                  <<PrintStmt(StrLit("r")),
                    ReturnStatement(TRUE, IntLit(y))>>),
              PrintStmt(BinaryExpr(o, CallExpr(Identifier("l"), <<>>),
                                      CallExpr(Identifier("r"), <<>>)))>>)

LogicInputs ==
    [i \in 1..(Len(LogicOps) * Len(Pairs(MaxVal))) |->
        LET o == ((i - 1) \div Len(Pairs(MaxVal))) + 1
            t == Pairs(MaxVal)[((i - 1) % Len(Pairs(MaxVal))) + 1]
        IN SourceInput("logic", o, t[1], t[2],
                       LogicProgram(LogicOps[o], t[1], t[2]))]

\* ---- programs with a recursive function ----
\* fun d(n) { var t = n  if n > 0 { d(n - 1) }  print(t) }  d(k)
RecurseProgram(k) ==
    Program(<<FunctionDecl("d", <<Param("n")>>,
                <<VarStatement("t", Identifier("n")),
                  IfStatement(BinaryExpr(">", Identifier("n"), IntLit(0)),
                      <<ExpressionStatement(
                            CallExpr(Identifier("d"),
                                <<BinaryExpr("-", Identifier("n"),
                                             IntLit(1))>>))>>,
                      FALSE, NoneLit),
                  PrintStmt(Identifier("t"))>>),
              ExpressionStatement(CallExpr(Identifier("d"), <<IntLit(k)>>))>>)

\* the deepest call of d(k) runs in frame k + 2
RecurseInputs ==
    [i \in 1..(MaxFrames - 1) |->
        SourceInput("recurse", i - 1, 0, 0, RecurseProgram(i - 1))]

\* ---- programs that reach one list or instance through two holders ----
\* class B(f) { fun set(v) { self.f = v } }
\* fun put(l, o, v) { l[0] = v  o.f = v + 2 }
\* let a = [0, 0]  let b = a  let o = new B(0)  let q = o
\* b[1] = v  print(a[1])       q.f = v  print(o.f)
\* o.set(v + 1)  print(q.f)    put(a, o, v)  print(b[0])  print(q.f)
\* let c = a + b  c[0] = v + 3  print(a[0])  print(c[0])  print(c[2])
Let(n, e) == LetStatement(n, e)
Set(t, e) == ExpressionStatement(AssignExpr(t, e))
At(n, i) == IndexExpr(Identifier(n), IntLit(i))
Field(n) == MemberExpr(Identifier(n), "f")

AliasProgram(v) ==
    Program(<<ClassDecl("B", <<Param("f")>>,
                  <<MethodDecl("set", <<Param("v")>>,
                        <<Set(Field("self"), Identifier("v"))>>)>>),
              FunctionDecl("put", <<Param("l"), Param("o"), Param("v")>>,
                  <<Set(At("l", 0), Identifier("v")),
                    Set(Field("o"),
                        BinaryExpr("+", Identifier("v"), IntLit(2)))>>),
              Let("a", ListExpr(<<IntLit(0), IntLit(0)>>)),
              Let("b", Identifier("a")),
              Let("o", NewExpr("B", <<IntLit(0)>>)),
              Let("q", Identifier("o")),
              Set(At("b", 1), IntLit(v)),
              PrintStmt(At("a", 1)),
              Set(Field("q"), IntLit(v)),
              PrintStmt(Field("o")),
              ExpressionStatement(
                  CallExpr(MemberExpr(Identifier("o"), "set"),
                           <<IntLit(v + 1)>>)),
              PrintStmt(Field("q")),
              ExpressionStatement(
                  CallExpr(Identifier("put"),
                           <<Identifier("a"), Identifier("o"), IntLit(v)>>)),
              PrintStmt(At("b", 0)),
              PrintStmt(Field("q")),
              Let("c", BinaryExpr("+", Identifier("a"), Identifier("b"))),
              Set(At("c", 0), IntLit(v + 3)),
              PrintStmt(At("a", 0)),
              PrintStmt(At("c", 0)),
              PrintStmt(At("c", 2))>>)

AliasInputs ==
    [v \in 1..MaxVal |-> SourceInput("alias", v, 0, 0, AliasProgram(v))]

\* ---- bytecode files ----
BytecodeInput(name, buffer) ==
    [origin |-> "bytecode", name |-> name, a |-> 0, b |-> 0, c |-> 0,
     program |-> Program(<<>>), file |-> buffer]

\* main: NOP; LOAD_CONST true; JUMP_IF_TRUE 4; NOP; LOAD_CONST f; CALL 0;
\*       MAKE_MAP      f: LOAD_CONST 5 (and no RETURN)
HandAssembled ==
    [EmptyModule EXCEPT
        !.constants = <<ValBool(TRUE), ValFunction(1), ValInt(5)>>,
        !.functions = <<1>>,
        !.fnHeap = <<[name |-> "f", arity |-> 0, localCount |-> 0,
                      upvalueCount |-> 0, upvalues |-> <<>>,
                      code |-> <<Instr("LOAD_CONST", 2)>>]>>,
        !.mainCode = <<Instr("NOP", NoArg), Instr("LOAD_CONST", 0),
                       Instr("JUMP_IF_TRUE", 4), Instr("NOP", NoArg),
                       Instr("LOAD_CONST", 1), Instr("CALL", 0),
                       Instr("MAKE_MAP", 0)>>]

\* main: LOAD_CONST 5 (and no HALT)
NoHalt ==
    [EmptyModule EXCEPT !.constants = <<ValInt(5)>>,
                        !.mainCode = <<Instr("LOAD_CONST", 0)>>]

\* The file of a module with another string in the place of the magic
\* (cells 1 to 4 hold the length of the string, cell 5 its bytes)
WithMagic(buffer, magic) ==
    [buffer EXCEPT ![1] = U8(Len(magic)), ![5] = [k |-> "utf8", v |-> magic]]

\* The file of a module with another number in the place of the version
\* (cells 6 and 7, least significant byte first)
WithVersion(buffer, version) ==
    [buffer EXCEPT ![6] = U8(version % 256), ![7] = U8(version \div 256)]

BytecodeInputs ==
    <<BytecodeInput("hand-assembled", serialize(HandAssembled).buf),
      BytecodeInput("no-halt", serialize(NoHalt).buf),
      BytecodeInput("bad-magic",
                    WithMagic(serialize(HandAssembled).buf, "UABX")),
      BytecodeInput("short-magic",
                    WithMagic(serialize(NoHalt).buf, "UAB")),
      BytecodeInput("empty-file", <<>>),
      BytecodeInput("version-0",
                    WithVersion(serialize(HandAssembled).buf, 0)),
      BytecodeInput("version-2",
                    WithVersion(serialize(NoHalt).buf, 2)),
      BytecodeInput("version-256",
                    WithVersion(serialize(NoHalt).buf, 256))>>

Inputs ==
    CounterInputs \o ClosureInputs \o FunctionCallInputs
        \o ClosureCallInputs \o MethodCallInputs \o BranchInputs
        \o KindsInputs \o PipeInputs \o ArithInputs \o ListInputs
        \o MatchInputs \o AliasInputs
        \o RecurseInputs
        \o LogicInputs
        \o InnerClassInputs
        \o PrintManyInputs
        \o DeclInputs
        \o FactoryInputs
        \o PowerInputs
        \o InvalidCharInputs
        \o AssignInputs
        \o ArmScopeInputs
        \o ChainInputs
        \o NewInputs
        \o ForwardNewInputs
        \o LoopExitInputs
        \o BytecodeInputs

\* ------------------------------------------------------------------------
\* The state machine
\* ------------------------------------------------------------------------
Init ==
    /\ phase = "init"
    /\ \E i \in 1..Len(Inputs) : input = Inputs[i]
    /\ module = EmptyModule
    /\ file = [buf |-> input.file, offset |-> 0]
    /\ stack = <<>>
    /\ frames = <<>>
    /\ globals = EmptyMap
    /\ cells = <<>>
    /\ vecs = <<>>
    /\ objs = <<>>
    /\ output = <<>>
    /\ result = ValNone
    /\ error = <<>>
    /\ serials = 0

\* cli.ts runFile, index.ts compile(): the parsed program is compiled; a
\* throw rejects it
\* The program of an input: a "source" input gives the AST the Parser
\* yields, a "text" input the characters of the source
ParsedInput ==
    IF input.origin = "text" THEN FrontEnd(input.text)
    ELSE [ast |-> input.program, error |-> ""]

CompileSource ==
    /\ phase = "init"
    /\ input.origin \in {"source", "text"}
    /\ \E f \in {ParsedInput} :
          IF f.error # ""
          THEN /\ module' = module
               /\ phase' = "rejected"
               /\ error' = <<f.error>>
          ELSE /\ module' = compile(f.ast)
               /\ phase' = IF module'.error = "" THEN "ready" ELSE "rejected"
               /\ error' = error
    /\ UNCHANGED <<input, file, stack, frames, globals, cells, vecs, objs,
                   output, result, serials>>

\* cli.ts compileFile: the program is compiled and the module serialized
\* into the .uasb file
CompileFile ==
    /\ phase = "init"
    /\ input.origin \in {"source", "text"}
    /\ \E f \in {ParsedInput} :
          IF f.error # ""
          THEN /\ module' = module
               /\ phase' = "rejected"
               /\ file' = file
               /\ error' = <<f.error>>
          ELSE /\ module' = compile(f.ast)
               /\ error' = error
               /\ IF module'.error # ""
                  THEN phase' = "rejected" /\ file' = file
                  ELSE /\ file' = [buf |-> serialize(module').buf,
                                   offset |-> 0]
                       /\ phase' = IF serialize(module').error = ""
                                   THEN "compiled" ELSE "rejected"
    /\ UNCHANGED <<input, stack, frames, globals, cells, vecs, objs, output,
                   result, serials>>

\* cli.ts runBytecodeFile, up to vm.run: the file is deserialized; a throw
\* of the Deserializer is reported and there is no module to run
RunBytecodeFile ==
    /\ \/ phase = "compiled"
       \/ phase = "init" /\ input.origin = "bytecode"
    /\ \E d \in {deserialize(file.buf)} :
          /\ file' = [file EXCEPT !.offset = d.r.offset]
          /\ IF d.r.error # ""
             THEN /\ phase' = "rejected"
                  /\ module' = EmptyModule
                  /\ error' = <<d.r.error>>
             ELSE /\ phase' = "ready"
                  /\ module' = d.value
                  /\ error' = error
    /\ UNCHANGED <<input, stack, frames, globals, cells, vecs, objs, output,
                   result, serials>>

\* for (const fn of module.functions) globals.set(fn.name, function fn)
RegisterFunctions(g, m) ==
    LET F[i \in 0..Len(m.functions)] ==
            IF i = 0 THEN g
            ELSE MapSet(F[i - 1], m.fnHeap[m.functions[i]].name,
                        ValFunction(m.functions[i]))
    IN F[Len(m.functions)]

\* VM.run up to the call of execute()
RunModule ==
    /\ phase = "ready"
    /\ phase' = "running"
    /\ globals' = RegisterFunctions(STDLIB, module)
    /\ vecs' = <<<<>>>>
    /\ frames' = <<[fn |-> 0, ip |-> 0, stackBase |-> 0, locals |-> <<>>,
                    upvalues |-> 1, serial |-> 1]>>
    /\ serials' = 1
    /\ UNCHANGED <<input, module, file, stack, cells, objs, output, result,
                   error>>

\* execute() reporting frame.ip, the index after the failing instruction
CommitNextIp(out, frame) ==
    /\ stack' = out.vm.stack
    /\ frames' = out.vm.frames
    /\ globals' = out.vm.globals
    /\ cells' = out.vm.cells
    /\ vecs' = out.vm.vecs
    /\ objs' = out.vm.objs
    /\ output' = out.vm.output
    /\ serials' = out.vm.serials
    /\ phase' = CASE out.kind = "throw" -> "error"
                  [] out.kind = "return" -> "halted"
                  [] OTHER -> "running"
    /\ result' = IF out.kind = "return" THEN out.result ELSE result
    /\ error' = IF out.kind = "throw"
                THEN <<"Runtime error at ", FnOf(frame.fn).name, ":",
                       NumberToString(frame.ip + 1), ": ">> \o out.msg
                ELSE error
    /\ UNCHANGED <<input, module, file>>

\* execute(): what the loop does with the outcome of one instruction.
\* frame is the frame the instruction was fetched from.
Commit(out, frame) ==
    /\ stack' = out.vm.stack
    /\ frames' = out.vm.frames
    /\ globals' = out.vm.globals
    /\ cells' = out.vm.cells
    /\ vecs' = out.vm.vecs
    /\ objs' = out.vm.objs
    /\ output' = out.vm.output
    /\ serials' = out.vm.serials
    /\ phase' = CASE out.kind = "throw" -> "error"
                  [] out.kind = "return" -> "halted"
                  [] OTHER -> "running"
    /\ result' = IF out.kind = "return" THEN out.result ELSE result
    /\ error' = IF out.kind = "throw"
                THEN <<"Runtime error at ", FnOf(frame.fn).name, ":",
                       NumberToString(frame.ip), ": ">> \o out.msg
                ELSE error
    /\ UNCHANGED <<input, module, file>>

TopFrame == frames[Len(frames)]

Fetchable ==
    /\ phase = "running"
    /\ Len(frames) > 0
    /\ TopFrame.ip < Len(FnOf(TopFrame.fn).code)

\* frame.fn.code[frame.ip++]
CurrentInstr == FnOf(TopFrame.fn).code[TopFrame.ip + 1]

Fetched == [VM EXCEPT !.frames[Len(frames)].ip = @ + 1]

\* the case of the switch that the fetched instruction selects
Fetching(op) == Fetchable /\ CurrentInstr.op = op

\* execute(): the frame's code is exhausted without RETURN
EndOfFunction ==
    /\ phase = "running"
    /\ Len(frames) > 0
    /\ TopFrame.ip >= Len(FnOf(TopFrame.fn).code)
    /\ frames' = SubSeq(frames, 1, Len(frames) - 1)
    /\ IF Len(frames) = 1
       THEN /\ phase' = "halted"
            /\ result' = IF Len(stack) > 0 THEN stack[Len(stack)] ELSE ValNone
            /\ stack' = IF Len(stack) > 0 THEN SubSeq(stack, 1, Len(stack) - 1)
                        ELSE stack
       ELSE UNCHANGED <<phase, result, stack>>
    /\ UNCHANGED <<input, module, file, globals, cells, vecs, objs, output,
                   error, serials>>

ExecNOP ==
    /\ Fetching("NOP")
    /\ Commit(opNOP(Fetched, CurrentInstr.arg), TopFrame)
ExecHALT ==
    /\ Fetching("HALT")
    /\ Commit(opHALT(Fetched, CurrentInstr.arg), TopFrame)
ExecLOAD_CONST ==
    /\ Fetching("LOAD_CONST")
    /\ Commit(opLOAD_CONST(Fetched, CurrentInstr.arg), TopFrame)
ExecLOAD_VAR ==
    /\ Fetching("LOAD_VAR")
    /\ Commit(opLOAD_VAR(Fetched, CurrentInstr.arg), TopFrame)
ExecSTORE_VAR ==
    /\ Fetching("STORE_VAR")
    /\ Commit(opSTORE_VAR(Fetched, CurrentInstr.arg), TopFrame)
ExecLOAD_GLOBAL ==
    /\ Fetching("LOAD_GLOBAL")
    /\ Commit(opLOAD_GLOBAL(Fetched, CurrentInstr.arg), TopFrame)
ExecSTORE_GLOBAL ==
    /\ Fetching("STORE_GLOBAL")
    /\ Commit(opSTORE_GLOBAL(Fetched, CurrentInstr.arg), TopFrame)
ExecPOP ==
    /\ Fetching("POP")
    /\ Commit(opPOP(Fetched, CurrentInstr.arg), TopFrame)
ExecDUP ==
    /\ Fetching("DUP")
    /\ Commit(opDUP(Fetched, CurrentInstr.arg), TopFrame)
ExecADD ==
    /\ Fetching("ADD")
    /\ Commit(opADD(Fetched, CurrentInstr.arg), TopFrame)
ExecSUB ==
    /\ Fetching("SUB")
    /\ Commit(opSUB(Fetched, CurrentInstr.arg), TopFrame)
ExecMUL ==
    /\ Fetching("MUL")
    /\ Commit(opMUL(Fetched, CurrentInstr.arg), TopFrame)
ExecDIV ==
    /\ Fetching("DIV")
    /\ Commit(opDIV(Fetched, CurrentInstr.arg), TopFrame)
ExecMOD ==
    /\ Fetching("MOD")
    /\ Commit(opMOD(Fetched, CurrentInstr.arg), TopFrame)
ExecPOW ==
    /\ Fetching("POW")
    /\ Commit(opPOW(Fetched, CurrentInstr.arg), TopFrame)
ExecNEG ==
    /\ Fetching("NEG")
    /\ Commit(opNEG(Fetched, CurrentInstr.arg), TopFrame)
ExecEQ ==
    /\ Fetching("EQ")
    /\ Commit(opEQ(Fetched, CurrentInstr.arg), TopFrame)
ExecNE ==
    /\ Fetching("NE")
    /\ Commit(opNE(Fetched, CurrentInstr.arg), TopFrame)
ExecLT ==
    /\ Fetching("LT")
    /\ Commit(opLT(Fetched, CurrentInstr.arg), TopFrame)
ExecGT ==
    /\ Fetching("GT")
    /\ Commit(opGT(Fetched, CurrentInstr.arg), TopFrame)
ExecLE ==
    /\ Fetching("LE")
    /\ Commit(opLE(Fetched, CurrentInstr.arg), TopFrame)
ExecGE ==
    /\ Fetching("GE")
    /\ Commit(opGE(Fetched, CurrentInstr.arg), TopFrame)
ExecAND ==
    /\ Fetching("AND")
    /\ Commit(opAND(Fetched, CurrentInstr.arg), TopFrame)
ExecOR ==
    /\ Fetching("OR")
    /\ Commit(opOR(Fetched, CurrentInstr.arg), TopFrame)
ExecNOT ==
    /\ Fetching("NOT")
    /\ Commit(opNOT(Fetched, CurrentInstr.arg), TopFrame)
ExecJUMP ==
    /\ Fetching("JUMP")
    /\ Commit(opJUMP(Fetched, CurrentInstr.arg), TopFrame)
ExecJUMP_IF_FALSE ==
    /\ Fetching("JUMP_IF_FALSE")
    /\ Commit(opJUMP_IF_FALSE(Fetched, CurrentInstr.arg), TopFrame)
ExecJUMP_IF_TRUE ==
    /\ Fetching("JUMP_IF_TRUE")
    /\ Commit(opJUMP_IF_TRUE(Fetched, CurrentInstr.arg), TopFrame)
\* a new frame is pushed only while the frame stack is below MaxFrames
ExecCALL ==
    /\ Fetching("CALL")
    /\ Len(frames) < MaxFrames
    /\ Commit(opCALL(Fetched, CurrentInstr.arg), TopFrame)
ExecRETURN ==
    /\ Fetching("RETURN")
    /\ Commit(opRETURN(Fetched, CurrentInstr.arg), TopFrame)
ExecMAKE_CLOSURE ==
    /\ Fetching("MAKE_CLOSURE")
    /\ Commit(opMAKE_CLOSURE(Fetched, CurrentInstr.arg), TopFrame)
ExecLOAD_UPVALUE ==
    /\ Fetching("LOAD_UPVALUE")
    /\ Commit(opLOAD_UPVALUE(Fetched, CurrentInstr.arg), TopFrame)
ExecSTORE_UPVALUE ==
    /\ Fetching("STORE_UPVALUE")
    /\ Commit(opSTORE_UPVALUE(Fetched, CurrentInstr.arg), TopFrame)
ExecMAKE_LIST ==
    /\ Fetching("MAKE_LIST")
    /\ Commit(opMAKE_LIST(Fetched, CurrentInstr.arg), TopFrame)
ExecGET_INDEX ==
    /\ Fetching("GET_INDEX")
    /\ Commit(opGET_INDEX(Fetched, CurrentInstr.arg), TopFrame)
ExecSET_INDEX ==
    /\ Fetching("SET_INDEX")
    /\ Commit(opSET_INDEX(Fetched, CurrentInstr.arg), TopFrame)
ExecGET_ATTR ==
    /\ Fetching("GET_ATTR")
    /\ Commit(opGET_ATTR(Fetched, CurrentInstr.arg), TopFrame)
ExecSET_ATTR ==
    /\ Fetching("SET_ATTR")
    /\ Commit(opSET_ATTR(Fetched, CurrentInstr.arg), TopFrame)
ExecNEW_INSTANCE ==
    /\ Fetching("NEW_INSTANCE")
    /\ Commit(opNEW_INSTANCE(Fetched, CurrentInstr.arg), TopFrame)
ExecPRINT ==
    /\ Fetching("PRINT")
    /\ Commit(opPRINT(Fetched, CurrentInstr.arg), TopFrame)

\* default: of the switch
ExecDefault ==
    /\ Fetchable
    /\ CurrentInstr.op \notin VMCases
    /\ Commit(opDefault(Fetched, CurrentInstr.op), TopFrame)

Next ==
    \/ CompileSource
    \/ CompileFile
    \/ RunBytecodeFile
    \/ RunModule
    \/ EndOfFunction
    \/ ExecNOP
    \/ ExecHALT
    \/ ExecLOAD_CONST
    \/ ExecLOAD_VAR
    \/ ExecSTORE_VAR
    \/ ExecLOAD_GLOBAL
    \/ ExecSTORE_GLOBAL
    \/ ExecPOP
    \/ ExecDUP
    \/ ExecADD
    \/ ExecSUB
    \/ ExecMUL
    \/ ExecDIV
    \/ ExecMOD
    \/ ExecPOW
    \/ ExecNEG
    \/ ExecEQ
    \/ ExecNE
    \/ ExecLT
    \/ ExecGT
    \/ ExecLE
    \/ ExecGE
    \/ ExecAND
    \/ ExecOR
    \/ ExecNOT
    \/ ExecJUMP
    \/ ExecJUMP_IF_FALSE
    \/ ExecJUMP_IF_TRUE
    \/ ExecCALL
    \/ ExecRETURN
    \/ ExecMAKE_CLOSURE
    \/ ExecLOAD_UPVALUE
    \/ ExecSTORE_UPVALUE
    \/ ExecMAKE_LIST
    \/ ExecGET_INDEX
    \/ ExecSET_INDEX
    \/ ExecGET_ATTR
    \/ ExecSET_ATTR
    \/ ExecNEW_INSTANCE
    \/ ExecPRINT
    \/ ExecDefault

Spec == Init /\ [][Next]_vars

\* ------------------------------------------------------------------------
\* Properties
\* ------------------------------------------------------------------------
\* The module is one the compiler produced
Compiled ==
    /\ input.origin = "source"
    /\ phase \notin {"init", "rejected"}
    /\ module.error = ""

\* mainCode and the code of every function, lambda and method
AllCode == <<module.mainCode>>
               \o [f \in 1..Len(module.fnHeap) |-> module.fnHeap[f].code]

CalleeOnTop == stack[Len(stack)]

\* The CALL about to execute has its callee and its n arguments on the stack
CallPending ==
    /\ Fetching("CALL")
    /\ Len(stack) >= CurrentInstr.arg + 1

\* the n values under the callee, bottom-most first
PendingArgs ==
    SubSeq(stack, Len(stack) - CurrentInstr.arg, Len(stack) - 1)

\* The cell that slot idx of the executing frame's upvalues names (0: none)
UpvalueCell(idx) ==
    LET vec == vecs[TopFrame.upvalues]
    IN IF idx >= 0 /\ idx < Len(vec) THEN vec[idx + 1] ELSE 0

\* The cells made for the local that cell c was made for
SameLocal(c) ==
    {j \in 1..Len(cells) :
        cells[c].origin.serial > 0 /\ cells[j].origin = cells[c].origin}

\* C1: closures created in one frame that capture the same local of that
\* frame share its cell: whenever a closure is about to read an upvalue
\* with LOAD_UPVALUE, it reads what was last stored, through any closure,
\* to the cells made for that local (all of them hold the same value).
C1_StoreSeenThroughOtherClosure ==
    (Fetching("LOAD_UPVALUE") /\ UpvalueCell(CurrentInstr.arg) # 0) =>
        \A j \in SameLocal(UpvalueCell(CurrentInstr.arg)) :
            cells[j].value = cells[UpvalueCell(CurrentInstr.arg)].value

\* The live frame with the given serial, as a set (empty once it returned)
LiveFrames(serial) == {k \in 1..Len(frames) : frames[k].serial = serial}

\* C2: a captured local and its cell are one storage: when the parent
\* frame is about to LOAD_VAR slot i, it reads the value of the cells made
\* for slot i of that frame, and when a closure is about to LOAD_UPVALUE a
\* cell made for slot i of a frame that is still live, it reads that
\* frame's current local i.
C2_ParentFrameSharesCell ==
    /\ (Fetching("LOAD_VAR") /\ CurrentInstr.arg < Len(TopFrame.locals)) =>
          \A j \in 1..Len(cells) :
              (cells[j].origin = [serial |-> TopFrame.serial,
                                  slot |-> CurrentInstr.arg])
                  => cells[j].value = TopFrame.locals[CurrentInstr.arg + 1]
    /\ (Fetching("LOAD_UPVALUE") /\ UpvalueCell(CurrentInstr.arg) # 0) =>
          LET cell == cells[UpvalueCell(CurrentInstr.arg)]
          IN \A k \in LiveFrames(cell.origin.serial) :
                 cell.origin.slot < Len(frames[k].locals)
                     => cell.value = frames[k].locals[cell.origin.slot + 1]

\* C3: with var c = 0 and a top-level function make that runs c = c + 1 and
\* returns c, the k-th call of make returns k (the program prints the result
\* of each call): the run never fails, the i-th text printed is i, and a
\* run with k calls ends having printed k texts.
C3_KthCallReturnsK ==
    input.name = "counter" =>
        /\ phase # "error"
        /\ \A i \in 1..Len(output) : output[i] = NumberToString(i)
        /\ Len(output) <= input.a
        /\ phase = "halted" => Len(output) = input.a

\* the last call of the longest counter program has returned and is printed
C3_Witness ==
    /\ input.name = "counter"
    /\ input.a = MaxCalls
    /\ phase = "halted"
    /\ output[MaxCalls] = NumberToString(MaxCalls)

\* C4: CALL n on a bound method whose function takes the receiver and n
\* parameters creates a frame whose locals are the receiver followed by the
\* n arguments in source order (the order in which they were pushed).
C4_BoundMethodArgsInOrder ==
    [][(/\ CallPending
        /\ CalleeOnTop.type = "boundMethod"
        /\ CurrentInstr.arg + 1 = FnOf(CalleeOnTop.method).arity)
       => /\ Len(frames') = Len(frames) + 1
          /\ frames'[Len(frames')].locals
                 = <<CalleeOnTop.receiver>> \o PendingArgs]_vars

\* C5: CALL n on a compiled function or closure of arity n pops the callee
\* and the n arguments and creates one frame, starting at instruction 0,
\* whose locals are the n arguments in source order (the order in which
\* they were pushed: the top-most is the last one).
C5_CallArgsInOrder ==
    [][(/\ CallPending
        /\ \/ CalleeOnTop.type = "closure"
              /\ CurrentInstr.arg = FnOf(CalleeOnTop.fn).arity
           \/ CalleeOnTop.type = "function" /\ ~CalleeOnTop.native
              /\ CurrentInstr.arg = FnOf(CalleeOnTop.value).arity)
       => /\ Len(frames') = Len(frames) + 1
          /\ frames'[Len(frames')].locals = PendingArgs
          /\ frames'[Len(frames')].ip = 0
          /\ stack' = SubSeq(stack, 1, Len(stack) - CurrentInstr.arg - 1)
          /\ phase' = "running"]_vars

\* a closure called with MaxArgs arguments starts with them as its locals,
\* in the order of the call's argument list 1, 2, ...
C5_Witness ==
    /\ input.name = "call-closure"
    /\ input.a = MaxArgs
    /\ input.b = MaxArgs
    /\ Len(frames) = 3
    /\ TopFrame.ip = 0
    /\ FnOf(TopFrame.fn).name = "<lambda>"
    /\ TopFrame.locals = [i \in 1..MaxArgs |-> ValInt(i)]

\* The number of arguments the callee expects
ExpectedArgs(callee) ==
    CASE callee.type = "closure" -> FnOf(callee.fn).arity
      [] callee.type = "boundMethod" -> FnOf(callee.method).arity - 1
      [] OTHER -> FnOf(callee.value).arity

CompiledCallee(callee) ==
    \/ callee.type \in {"closure", "boundMethod"}
    \/ callee.type = "function" /\ ~callee.native

\* The message of a runtime error, after "Runtime error at <fn>:<ip>: "
ErrorText(e) == SubSeq(e, 6, Len(e))

Mentions(text, n) == \E i \in 1..Len(text) : text[i] = NumberToString(n)

\* C6: CALL n on a compiled function, closure or bound method that expects
\* another number of arguments than n ends the run with a runtime error
\* whose message mentions the expected and the provided count, and pushes
\* no frame.
C6_ArityEnforced ==
    [][(/\ CallPending
        /\ CompiledCallee(CalleeOnTop)
        /\ CurrentInstr.arg # ExpectedArgs(CalleeOnTop))
       => /\ phase' = "error"
          /\ frames' = [frames EXCEPT ![Len(frames)].ip = @ + 1]
          /\ Mentions(ErrorText(error'), ExpectedArgs(CalleeOnTop))
          /\ Mentions(ErrorText(error'), CurrentInstr.arg)]_vars

\* a method of two parameters called with one argument has ended the run
C6_Witness ==
    /\ input.name = "call-method"
    /\ input.a = 2
    /\ input.b = 1
    /\ phase = "error"
    /\ Len(frames) = 1
    /\ Mentions(ErrorText(error), 2)
    /\ Mentions(ErrorText(error), 1)

JumpOps == {"JUMP", "JUMP_IF_FALSE", "JUMP_IF_TRUE"}

JumpsAt(code) == {i \in 1..Len(code) : code[i].op \in JumpOps}

\* C7: in a module the compiler produced, the operand of every JUMP,
\* JUMP_IF_FALSE and JUMP_IF_TRUE of mainCode and of every function, lambda
\* and method is an index of that same instruction sequence:
\* 0 <= operand < code.length.
C7_JumpSafety ==
    Compiled =>
        \A c \in 1..Len(AllCode) :
            \A i \in JumpsAt(AllCode[c]) :
                /\ AllCode[c][i].arg >= 0
                /\ AllCode[c][i].arg < Len(AllCode[c])

\* a compiled module whose method m holds a forward and a backward jump
\* (the instruction at position i of the sequence has index i - 1)
C7_Witness ==
    /\ Compiled
    /\ \E f \in 1..Len(module.fnHeap) :
          /\ module.fnHeap[f].name = "m"
          /\ \E i, j \in JumpsAt(module.fnHeap[f].code) :
                /\ module.fnHeap[f].code[i].arg > i - 1
                /\ module.fnHeap[f].code[j].arg < j - 1

ConstOps == {"LOAD_CONST", "GET_ATTR", "SET_ATTR"}

\* C8: in a module the compiler produced, every LOAD_CONST, GET_ATTR and
\* SET_ATTR operand is an index of the constants table, and the constant a
\* GET_ATTR or SET_ATTR operand addresses is a string.
C8_ConstantIndexing ==
    Compiled =>
        \A c \in 1..Len(AllCode) :
            \A i \in 1..Len(AllCode[c]) :
                AllCode[c][i].op \in ConstOps =>
                    /\ AllCode[c][i].arg >= 0
                    /\ AllCode[c][i].arg < Len(module.constants)
                    /\ AllCode[c][i].op # "LOAD_CONST" =>
                          module.constants[AllCode[c][i].arg + 1].type
                              = "string"

\* a compiled module with a SET_ATTR and a GET_ATTR
C8_Witness ==
    /\ Compiled
    /\ \E c \in 1..Len(AllCode) :
          \E i, j \in 1..Len(AllCode[c]) :
              /\ AllCode[c][i].op = "SET_ATTR"
              /\ AllCode[c][j].op = "LOAD_CONST"
    /\ \E c \in 1..Len(AllCode) :
          \E i \in 1..Len(AllCode[c]) : AllCode[c][i].op = "GET_ATTR"

GlobalOps == {"LOAD_GLOBAL", "STORE_GLOBAL"}

\* C9: in a module the compiler produced, the globals table has no name
\* twice, every LOAD_GLOBAL and STORE_GLOBAL operand is an index of it, and
\* all the global instructions emitted for one name, in any function and
\* before or after the declaration, carry the same slot: the slot of that
\* name in the table.
C9_GlobalSlots ==
    Compiled =>
        /\ \A i, j \in 1..Len(module.globals) :
              module.globals[i] = module.globals[j] => i = j
        /\ \A c \in 1..Len(AllCode) :
              \A i \in 1..Len(AllCode[c]) :
                  AllCode[c][i].op \in GlobalOps =>
                      /\ AllCode[c][i].arg >= 0
                      /\ AllCode[c][i].arg < Len(module.globals)
        /\ \A i, j \in 1..Len(module.globalRefs) :
              module.globalRefs[i].name = module.globalRefs[j].name
                  => module.globalRefs[i].slot = module.globalRefs[j].slot
        /\ \A i \in 1..Len(module.globalRefs) :
              /\ module.globalRefs[i].slot < Len(module.globals)
              /\ module.globals[module.globalRefs[i].slot + 1]
                     = module.globalRefs[i].name

\* a compiled module in which a method uses the global o before the top
\* level declares it, and the top level uses it after
C9_Witness ==
    /\ Compiled
    /\ input.name = "branch"
    /\ \E f \in 1..Len(module.fnHeap) :
          /\ module.fnHeap[f].name = "m"
          /\ \E i \in 1..Len(module.fnHeap[f].code) :
                /\ module.fnHeap[f].code[i].op = "LOAD_GLOBAL"
                /\ module.fnHeap[f].code[i].arg < Len(module.globals)
                /\ module.globals[module.fnHeap[f].code[i].arg + 1] = "o"
    /\ \E i, j \in 1..Len(module.globalRefs) :
          /\ i < j
          /\ module.globalRefs[i].name = "o"
          /\ module.globalRefs[j].name = "o"

\* C10: in a run of a module the compiler produced, the operand of every
\* LOAD_VAR and STORE_VAR executed, in the main frame as in any other, is
\* smaller than the localCount of the executing frame's function.
C10_LocalSlotsWithinLocalCount ==
    (Compiled /\ Fetchable /\ CurrentInstr.op \in {"LOAD_VAR", "STORE_VAR"})
        => /\ CurrentInstr.arg >= 0
           /\ CurrentInstr.arg < FnOf(TopFrame.fn).localCount

\* ---- the bytecode file ----
\* A CompiledModule as a structure: every function and class object written
\* out in the place of the reference to it
ValueView(m, v) ==
    CASE v.type = "function" /\ ~v.native ->
            [type |-> "function", value |-> m.fnHeap[v.value]]
      [] v.type = "class" ->
            [type |-> "class",
             name |-> m.classHeap[v.value].name,
             fields |-> m.classHeap[v.value].fields,
             methods |->
                 [i \in 1..Len(MethodEntries(m.classHeap[v.value].methods)) |->
                     [name |-> MethodEntries(m.classHeap[v.value].methods)[i].name,
                      fn |-> m.fnHeap[MethodEntries(
                                 m.classHeap[v.value].methods)[i].fn]]]]
      [] OTHER -> v

ModuleView(m) ==
    [constants |-> [i \in 1..Len(m.constants) |-> ValueView(m, m.constants[i])],
     globals |-> m.globals,
     functions |-> [i \in 1..Len(m.functions) |-> m.fnHeap[m.functions[i]]],
     mainCode |-> m.mainCode]

\* The code with operand 0 on every instruction that has no operand
OperandsFilled(code) ==
    [i \in 1..Len(code) |->
        IF code[i].arg = NoArg THEN Instr(code[i].op, 0) ELSE code[i]]

\* The module with operand 0 on every instruction that has no operand
ModuleOperandsFilled(m) ==
    [m EXCEPT !.mainCode = OperandsFilled(@),
              !.fnHeap = [f \in 1..Len(@) |->
                             [@[f] EXCEPT !.code = OperandsFilled(@)]]]

\* C11 (as stated): the file of a compiled module deserializes without
\* error into a module equal to the compiled one: the same constants,
\* globals, functions (name, arity, localCount, upvalueCount, upvalue
\* descriptors, code) and mainCode, instruction by instruction, operands
\* included.
C11_RoundTripExact ==
    phase = "compiled" =>
        /\ deserialize(file.buf).r.error = ""
        /\ ModuleView(deserialize(file.buf).value) = ModuleView(module)

\* C11 (amended): the file of a compiled module deserializes without error
\* into the compiled module with operand 0 on every instruction that was
\* emitted without operand; constants, globals, functions (name, arity,
\* localCount, upvalueCount, upvalue descriptors) and every other operand
\* are the same.
C11_RoundTripUpToUnusedOperands ==
    phase = "compiled" =>
        /\ deserialize(file.buf).r.error = ""
        /\ deserialize(file.buf).r.offset = Len(file.buf)
        /\ ModuleView(deserialize(file.buf).value)
               = ModuleView(ModuleOperandsFilled(module))

\* A compiled module with a class, a method, a function that captures a
\* local of its parent, and instructions with and without operand
C11_Witness ==
    /\ phase = "compiled"
    /\ Len(file.buf) > 0
    /\ \E i \in 1..Len(module.constants) : module.constants[i].type = "class"
    /\ \E f \in 1..Len(module.fnHeap) : Len(module.fnHeap[f].upvalues) > 0
    /\ \E i, j \in 1..Len(module.mainCode) :
          /\ module.mainCode[i].arg = NoArg
          /\ module.mainCode[j].arg > 0

\* The string at the head of the file
MagicRead == readString(NewDeserializer(file.buf))

\* The number that follows it
VersionRead == readUInt16(MagicRead.r)

\* runBytecodeFile is about to read the file
Loading ==
    \/ phase = "compiled"
    \/ phase = "init" /\ input.origin = "bytecode"

\* C12: a file whose leading length-prefixed string is not "UABC" is
\* rejected with an error and yields no module, and the Deserializer has
\* read nothing beyond that string.
C12_BadMagicRejected ==
    [][(Loading /\ MagicRead.value # "UABC") =>
           /\ phase' = "rejected"
           /\ module' = EmptyModule
           /\ error' # <<>>
           /\ file'.offset <= MagicRead.r.offset]_vars

\* The file with "UABX" in the place of the magic has been rejected
C12_Witness ==
    /\ phase = "rejected"
    /\ input.name = "bad-magic"
    /\ MagicRead.value = "UABX"
    /\ error = <<"Invalid bytecode file format">>
    /\ file.offset = MagicRead.r.offset
    /\ module = EmptyModule

\* C13: a file with the magic "UABC" and a version other than 1 is rejected
\* with an error and yields no module.
C13_VersionMismatchRejected ==
    [][(Loading /\ MagicRead.value = "UABC" /\ VersionRead.value # 1) =>
           /\ phase' = "rejected"
           /\ module' = EmptyModule
           /\ error' # <<>>]_vars

\* ---- pipe ----
\* The program of a "pipe" input with b(a) in the place of a |> b
CallForm ==
    PipeProgram(CallExpr(PipeRights[input.b], <<PipeLefts[input.a]>>))

\* C14: the code compiled for a |> b is the code compiled for b(a): the
\* module of print(a |> b) has the constants, globals, functions and main
\* code of the module of print(b(a)).
C14_PipeCompilesAsCall ==
    (input.name = "pipe" /\ Compiled) =>
        ModuleView(ModuleOperandsFilled(module))
            = ModuleView(ModuleOperandsFilled(compile(CallForm)))

\* The same for every right operand but the identifier __print__
C14_PipeCompilesAsCallUnlessPrint ==
    (input.name = "pipe" /\ Compiled
         /\ PipeRights[input.b] # Identifier("__print__")) =>
        ModuleView(ModuleOperandsFilled(module))
            = ModuleView(ModuleOperandsFilled(compile(CallForm)))

\* ------------------------------------------------------------------------
\* Arithmetic
\* ------------------------------------------------------------------------
ArithmeticOps == {"ADD", "SUB", "MUL", "DIV", "MOD", "POW"}

\* the operands of the binary instruction about to run: a below b
OperandA == stack[Len(stack) - 1]
OperandB == stack[Len(stack)]

\* an arithmetic instruction is about to run on two numbers
ArithmeticStep ==
    /\ Fetchable
    /\ CurrentInstr.op \in ArithmeticOps
    /\ Len(stack) >= 2
    /\ IsNumber(OperandA)
    /\ IsNumber(OperandB)

ZeroDivisor ==
    /\ CurrentInstr.op \in {"DIV", "MOD"}
    /\ OperandB.value = 0

\* C15: integer purity.  ADD, SUB, MUL, DIV, MOD or POW on two numbers (the
\* divisor of DIV and MOD not zero) pushes a result in place of the
\* operands; the result has the integer tag when both operands have it and
\* the float tag when either operand has the float tag.
C15_IntegerPurity ==
    [][(ArithmeticStep /\ ~ZeroDivisor) =>
          /\ phase' = "running"
          /\ Len(stack') = Len(stack) - 1
          /\ stack'[Len(stack')].type =
                 (IF OperandA.type = "int" /\ OperandB.type = "int"
                  THEN "int" ELSE "float")]_vars

\* ------------------------------------------------------------------------
\* print
\* ------------------------------------------------------------------------
\* the PRINT 1 that compileCallExpr emits for print(x) is about to run
PrintCall ==
    /\ input.origin = "source"
    /\ Fetching("PRINT")
    /\ CurrentInstr.arg = 1

\* the instruction that follows it is about to run
AfterPrintCall ==
    /\ input.origin = "source"
    /\ Fetchable
    /\ TopFrame.ip >= 1
    /\ FnOf(TopFrame.fn).code[TopFrame.ip] = Instr("PRINT", 1)

\* C16: print side effect.  The PRINT of print(x) appends one line to the
\* output, the display string of x, and takes x off the stack; the next
\* instruction is a LOAD_CONST that writes nothing and pushes none, so that
\* none stands where x stood.
C16_PrintSideEffect ==
    [][/\ PrintCall =>
            /\ Len(stack) >= 1
            /\ output' = Append(output, valueToString(VM, stack[Len(stack)]))
            /\ stack' = SubSeq(stack, 1, Len(stack) - 1)
            /\ phase' = "running"
            /\ frames' = [frames EXCEPT ![Len(frames)].ip = @ + 1]
            /\ TopFrame.ip + 2 <= Len(FnOf(TopFrame.fn).code)
       /\ AfterPrintCall =>
            /\ CurrentInstr.op = "LOAD_CONST"
            /\ output' = output
            /\ stack' = Append(stack, ValNone)
            /\ phase' = "running"]_vars

\* print(x) has been evaluated inside a function: a line is written and
\* none is on top of the stack
C16_Witness ==
    /\ input.origin = "source"
    /\ phase = "running"
    /\ Len(frames) >= 2
    /\ TopFrame.ip >= 2
    /\ FnOf(TopFrame.fn).code[TopFrame.ip - 1] = Instr("PRINT", 1)
    /\ FnOf(TopFrame.fn).code[TopFrame.ip].op = "LOAD_CONST"
    /\ Len(output) >= 1
    /\ Len(stack) >= 1
    /\ stack[Len(stack)] = ValNone

\* ------------------------------------------------------------------------
\* match
\* ------------------------------------------------------------------------
\* the pattern p matches the integer v
PatternMatches(p, v) ==
    CASE p.kind = "LiteralPattern" -> p.value.value = v
      [] p.kind = "RangePattern" -> p.start.value <= v /\ v <= p.end.value
      [] OTHER -> TRUE

\* the guard n op k of the arm, n bound to v, is truthy
GuardHolds(arm, v) ==
    IF ~arm.hasGuard THEN TRUE
    ELSE CASE arm.guard.operator = ">" -> v > arm.guard.right.value
           [] arm.guard.operator = "<" -> v < arm.guard.right.value
           [] arm.guard.operator = "==" -> v = arm.guard.right.value

Qualifies(arm, v) == PatternMatches(arm.pattern, v) /\ GuardHolds(arm, v)

\* what the bodies of the match of the input write when exactly the body of
\* the first qualifying arm is evaluated: its label, or nothing
ExpectedMatchOutput ==
    LET arms == MatchArms[input.a]
        Q == {i \in 1..Len(arms) : Qualifies(arms[i], input.b)}
    IN IF Q = {} THEN <<>>
       ELSE <<arms[CHOOSE i \in Q : \A j \in Q : i <= j].body.args[1].value>>

MatchEvaluatesFirstArm ==
    /\ phase # "error"
    /\ Len(output) <= Len(ExpectedMatchOutput)
    /\ output = SubSeq(ExpectedMatchOutput, 1, Len(output))
    /\ phase = "halted" => output = ExpectedMatchOutput

HasRangePattern(arms) ==
    \E i \in 1..Len(arms) : arms[i].pattern.kind = "RangePattern"

\* C17: a match evaluates exactly the body of the first arm, in source
\* order, whose pattern matches the subject and whose guard, if present, is
\* truthy, and no body when no arm qualifies: the run of match v { arms }
\* fails nowhere and writes the label of that arm and nothing else.
C17_MatchFirstArm ==
    (input.name = "match" /\ Compiled) => MatchEvaluatesFirstArm

\* The same for the matches without a range pattern
C17_MatchFirstArmWithoutRanges ==
    (input.name = "match" /\ Compiled
         /\ ~HasRangePattern(MatchArms[input.a])) => MatchEvaluatesFirstArm

\* DIV or MOD is about to run with a divisor that is the number 0
ZeroDivisorStep ==
    /\ Fetchable
    /\ CurrentInstr.op \in {"DIV", "MOD"}
    /\ Len(stack) >= 2
    /\ IsNumber(OperandB)
    /\ OperandB.value = 0

\* C18: DIV with the divisor 0, integer or float, and MOD with the divisor
\* 0 end the run with a runtime error and push no result: the operands are
\* popped, nothing is written, and for DIV on a number the error is
\* "Division by zero".
C18_ZeroDivisorFails ==
    [][ZeroDivisorStep =>
          /\ phase' = "error"
          /\ stack' = SubSeq(stack, 1, Len(stack) - 2)
          /\ output' = output
          /\ Len(error') > 0
          /\ (CurrentInstr.op = "DIV" /\ IsNumber(OperandA))
                 => error'[Len(error')] = "Division by zero"]_vars

\* x / 0.0 has failed
C18_Witness ==
    /\ input.name = "arith"
    /\ ArithOperators[input.c] = "/"
    /\ ArithOperands[input.b] = FloatLit(0)
    /\ ArithOperands[input.a] = IntLit(5)
    /\ phase = "error"
    /\ stack = <<>>
    /\ output = <<>>
    /\ error[Len(error)] = "Division by zero"

\* ------------------------------------------------------------------------
\* Lists
\* ------------------------------------------------------------------------
\* GET_INDEX or SET_INDEX is about to run on a list and an integer index
\* outside [0, length)
IndexOutOfBoundsStep ==
    /\ Fetchable
    /\ \/ CurrentInstr.op = "GET_INDEX" /\ Len(stack) >= 2
       \/ CurrentInstr.op = "SET_INDEX" /\ Len(stack) >= 3
    /\ OperandA.type = "list"
    /\ OperandB.type = "int"
    /\ \/ OperandB.value < 0
       \/ OperandB.value >= Len(objs[OperandA.value].elements)

\* C19: index bounds.  GET_INDEX and SET_INDEX on a list with an integer
\* index outside [0, length) end the run with a runtime error that mentions
\* bounds, and leave every list as it was.
C19_IndexBounds ==
    [][IndexOutOfBoundsStep =>
          /\ phase' = "error"
          /\ Len(error') > 0
          /\ error'[Len(error')] = " out of bounds"
          /\ objs' = objs]_vars

\* l[i] = 9 has failed for a negative i on a list that is not empty, and
\* the list is as it was built
C19_Witness ==
    /\ input.name = "list-set"
    /\ input.a >= 1
    /\ input.b < 0
    /\ phase = "error"
    /\ error[Len(error)] = " out of bounds"
    /\ Len(objs) = 1
    /\ objs[1].elements = [i \in 1..input.a |-> ValInt(i)]

\* l[0] on the empty list has failed
C19_WitnessEmptyList ==
    /\ input.name = "list-get"
    /\ input.a = 0
    /\ input.b = 0
    /\ phase = "error"
    /\ error[Len(error)] = " out of bounds"
    /\ objs = <<[elements |-> <<>>]>>

\* ------------------------------------------------------------------------
\* Runtime failures
\* ------------------------------------------------------------------------
\* the instruction about to run has no case in the switch, or is SUB, DIV,
\* MOD or POW on an operand that is no number
FailingStep ==
    /\ Fetchable
    /\ \/ CurrentInstr.op \notin VMCases
       \/ /\ CurrentInstr.op \in {"SUB", "DIV", "MOD", "POW"}
          /\ Len(stack) >= 2
          /\ ~(IsNumber(OperandA) /\ IsNumber(OperandB))

\* C20: a runtime failure ends the whole run with one error, which names
\* the function of the frame whose instruction was executing and the index
\* of that instruction, followed by the message of the failure; once the
\* run has failed no instruction of any frame is executed.
C20_RuntimeFailureAborts ==
    [][/\ phase # "error"
       /\ FailingStep => phase' = "error"
       /\ (phase = "running" /\ phase' = "error") =>
              /\ Fetchable
              /\ error = <<>>
              /\ Len(error') > 5
              /\ SubSeq(error', 1, 5) =
                     <<"Runtime error at ", FnOf(TopFrame.fn).name, ":",
                       NumberToString(TopFrame.ip), ": ">>]_vars

\* an instruction after the first of a called function has failed, and the
\* frames of its callers are left where they were
C20_Witness ==
    /\ phase = "error"
    /\ Len(frames) >= 2
    /\ TopFrame.fn # 0
    /\ TopFrame.ip >= 2
    /\ Len(error) > 5
    /\ SubSeq(error, 1, 5) =
           <<"Runtime error at ", FnOf(TopFrame.fn).name, ":",
             NumberToString(TopFrame.ip - 1), ": ">>
    /\ frames[1].ip < Len(module.mainCode)

\* ------------------------------------------------------------------------
\* break and continue
\* ------------------------------------------------------------------------
\* C22: a program that uses break or continue is refused at compile time,
\* or its run ends with a runtime error when the statement is reached: the
\* loop of the program, whose first iteration reaches the statement after
\* one print, writes at most that one line and its run does not end
\* normally.
C22_BreakRefusedOrFails ==
    input.name = "loop-exit" =>
        /\ Len(output) <= 1
        /\ phase # "halted"

\* ------------------------------------------------------------------------
\* Classes and instances
\* ------------------------------------------------------------------------
\* the code of the main program and of every function of the module
AllCodes(m) == {m.mainCode} \cup {m.fnHeap[i].code : i \in 1..Len(m.fnHeap)}

\* every NEW_INSTANCE of the module follows a LOAD_GLOBAL of the slot
NewSitesUseSlot(m, slot) ==
    \A code \in AllCodes(m) : \A i \in 1..Len(code) :
        code[i].op = "NEW_INSTANCE" =>
            i > 1 /\ code[i - 1] = Instr("LOAD_GLOBAL", slot)

\* the main program stores a class constant into the slot
ClassStoredInSlot(m, slot) ==
    \E i \in 2..Len(m.mainCode) :
        /\ m.mainCode[i] = Instr("STORE_GLOBAL", slot)
        /\ m.mainCode[i - 1].op = "LOAD_CONST"
        /\ m.constants[m.mainCode[i - 1].arg + 1].type = "class"

\* what holds of a program with new C before class C once it is compiled
ForwardNewState ==
    (input.name = "forward-new" /\ phase # "init") =>
        /\ phase # "rejected"
        /\ \E slot \in 0..(Len(module.globals) - 1) :
              /\ module.globals[slot + 1] = "C"
              /\ NewSitesUseSlot(module, slot)
              /\ ClassStoredInSlot(module, slot)
        /\ input.a = 0 =>
              /\ phase # "error"
              /\ phase = "halted" =>
                    /\ output = <<"<C instance>">>
                    /\ Len(objs) = 1
                    /\ module.classHeap[objs[1].classDef].name = "C"
        /\ input.a # 0 =>
              /\ phase # "halted"
              /\ objs = <<>>
              /\ output = <<>>
              /\ phase = "error" =>
                    SubSeq(error, Len(error) - 1, Len(error))
                        = <<"Cannot instantiate ", "none">>

\* NEW_INSTANCE is about to run
NewInstanceStep == Fetching("NEW_INSTANCE") /\ Len(stack) >= 1

\* C23: forward class references.  new C compiled before class C loads the
\* global slot that the class declaration stores into.  An instantiation
\* that runs when the slot holds the class produces an instance of it; one
\* that runs while the slot holds no class ends the run with a runtime
\* error and produces no instance.
C23_ForwardClassReference ==
    [][/\ ForwardNewState'
       /\ (NewInstanceStep /\ OperandB.type # "class") =>
              /\ phase' = "error"
              /\ objs' = objs
       /\ (NewInstanceStep /\ OperandB.type = "class"
               /\ Len(stack) > CurrentInstr.arg) =>
              /\ phase' = "running"
              /\ Len(objs') = Len(objs) + 1
              /\ stack'[Len(stack')] = ValInstance(Len(objs'))
              /\ objs'[Len(objs')].classDef = OperandB.value]_vars

\* new C, compiled before class C, has run after the class statement
C23_Witness ==
    /\ input.name = "forward-new"
    /\ input.a = 0
    /\ phase = "halted"
    /\ output = <<"<C instance>">>

\* new C has run before the class statement
C23_WitnessAbsentClass ==
    /\ input.name = "forward-new"
    /\ input.a = 1
    /\ phase = "error"
    /\ objs = <<>>

\* NEW_INSTANCE n is about to run on a class and n arguments
InstantiationStep ==
    /\ NewInstanceStep
    /\ OperandB.type = "class"
    /\ Len(stack) > CurrentInstr.arg

Min(x, y) == IF x < y THEN x ELSE y

\* the field names of the class about to be instantiated, and the
\* arguments under it in the order they were pushed
FieldNames == module.classHeap[OperandB.value].fields
NewArgs == SubSeq(stack, Len(stack) - CurrentInstr.arg, Len(stack) - 1)

\* GET_ATTR is about to run on an instance that has neither a field nor a
\* method of the name
AbsentAttrStep ==
    /\ Fetching("GET_ATTR")
    /\ Len(stack) >= 1
    /\ OperandB.type = "instance"
    /\ AttrName(CurrentInstr.arg).st = "ok"
    /\ ~MapHas(objs[OperandB.value].fields, AttrName(CurrentInstr.arg).name)
    /\ ~MapHas(module.classHeap[objs[OperandB.value].classDef].methods,
               AttrName(CurrentInstr.arg).name)

\* what print(o.<attr>) of the program writes before "z": the method, the
\* argument bound to the field, or nothing when the field is absent
NewExpectedOutput ==
    IF input.c = 0 THEN <<"<metod m>", "z">>
    ELSE IF input.c <= Min(input.a, input.b)
    THEN <<NumberToString(input.c), "z">>
    ELSE <<>>

NewProgramState ==
    (input.name = "new" /\ phase \in {"halted", "error"}) =>
        /\ output = NewExpectedOutput
        /\ phase = "error" <=> NewExpectedOutput = <<>>

\* C24: NEW_INSTANCE n pops the class and the n arguments and pushes a new
\* instance of the class whose fields are exactly the first min(n, number
\* of fields) field names of the class, the i-th bound to the i-th
\* argument; GET_ATTR of a name that is neither a field of the instance
\* nor a method of its class ends the run with a runtime error.
C24_NewInstanceFields ==
    [][/\ InstantiationStep =>
              /\ phase' = "running"
              /\ stack' = Append(SubSeq(stack, 1,
                                        Len(stack) - 1 - CurrentInstr.arg),
                                 ValInstance(Len(objs) + 1))
              /\ Len(objs') = Len(objs) + 1
              /\ SubSeq(objs', 1, Len(objs)) = objs
              /\ objs'[Len(objs')].classDef = OperandB.value
              /\ DOMAIN objs'[Len(objs')].fields =
                     {FieldNames[i] :
                          i \in 1..Min(CurrentInstr.arg, Len(FieldNames))}
              /\ \A i \in 1..Min(CurrentInstr.arg, Len(FieldNames)) :
                     objs'[Len(objs')].fields[FieldNames[i]] = NewArgs[i]
       /\ AbsentAttrStep =>
              /\ phase' = "error"
              /\ SubSeq(error', Len(error') - 1, Len(error')) =
                     <<"Unknown field/method: ",
                       AttrName(CurrentInstr.arg).name>>
       /\ NewProgramState']_vars

\* a class of two fields was instantiated with one argument and the read
\* of the second field has failed
C24_Witness ==
    /\ input.name = "new"
    /\ input.a = 2
    /\ input.b = 1
    /\ input.c = 2
    /\ phase = "error"
    /\ Len(objs) = 1
    /\ DOMAIN objs[1].fields = {"p1"}
    /\ objs[1].fields["p1"] = ValInt(1)

\* a class of one field was instantiated with three arguments and the
\* field read
C24_WitnessExtraArgs ==
    /\ input.name = "new"
    /\ input.a = 1
    /\ input.b = 3
    /\ input.c = 1
    /\ phase = "halted"
    /\ output = <<"1", "z">>
    /\ DOMAIN objs[1].fields = {"p1"}

\* ------------------------------------------------------------------------
\* Nested closures
\* ------------------------------------------------------------------------
\* The lambdas of the program f { g { h } }: h has no local and g has two.
\* h's descriptor for x names upvalue 0 of g, and g's descriptor is
\* grounded in slot 0 of f, the slot of x.
ChainDescriptors ==
    /\ \E i \in 1..Len(module.fnHeap) :
           module.fnHeap[i].name = "<lambda>" /\ module.fnHeap[i].localCount = 0
    /\ \A i \in 1..Len(module.fnHeap) :
           module.fnHeap[i].name = "<lambda>" =>
               module.fnHeap[i].upvalues =
                   <<[index |-> 0,
                      isLocal |-> module.fnHeap[i].localCount > 0]>>

\* h() yields the value of f's x: the run writes it, after the line g
\* writes when it refers to x itself
ChainReadsOuterVariable ==
    /\ phase # "error"
    /\ phase = "halted" =>
           output = (IF input.b = 1 THEN <<NumberToString(input.a)>>
                     ELSE <<>>) \o <<NumberToString(input.a)>>

\* C25: upvalue descriptors chain outward through every intermediate
\* function.  When h, nested in g, nested in f, refers to a local x of f
\* that g does not refer to, h's descriptor is (isLocal = false, an upvalue
\* of g) and g has a descriptor grounded in f's local, so h reads f's x and
\* not the local of g with the same slot number.
C25_UpvalueChain ==
    (input.name = "chain" /\ input.b = 0 /\ Compiled) =>
        ChainDescriptors /\ ChainReadsOuterVariable

\* The same when g refers to x itself before it creates h
C25_UpvalueChainThroughUser ==
    (input.name = "chain" /\ input.b = 1 /\ Compiled) =>
        ChainDescriptors /\ ChainReadsOuterVariable


\* ------------------------------------------------------------------------
\* match: the value stack around the statement
\* ------------------------------------------------------------------------
\* The match statement of a "match" program is the first statement of its
\* function: the main function (c = 0) or the function w that main calls.
InMatchFunction == Fetchable /\ Len(frames) = input.c + 1

MatchCode == FnOf(TopFrame.fn).code

\* compileMatchStatement ends with the only POP of the function
MatchFinalPop == SetMax({i \in 1..Len(MatchCode) : MatchCode[i].op = "POP"})

\* the match statement is about to begin
MatchBegins == input.name = "match" /\ InMatchFunction /\ TopFrame.ip = 0

\* the final POP of the match statement has just run
MatchCompleted ==
    input.name = "match" /\ InMatchFunction /\ TopFrame.ip = MatchFinalPop

\* the function of the match statement starts on a value stack of the
\* height recorded in its frame
MatchStartsAtStackBase == MatchBegins => Len(stack) = TopFrame.stackBase

\* C26: after a match statement completes, by whichever arm or by no arm,
\* the value stack is as high as it was before the statement began.
C26_MatchStackHeight == MatchCompleted => Len(stack) = TopFrame.stackBase

\* what the compiled code does instead: the subject stays on the stack, and
\* on top of it one more copy for every arm tested whose pattern is not a
\* literal
C26_MatchLeavesSubject == MatchCompleted => Len(stack) > TopFrame.stackBase


\* ------------------------------------------------------------------------
\* match: the scope of an identifier pattern's binding
\* ------------------------------------------------------------------------
\* A run of an "arm-scope" program that has ended normally
ArmScopeDone == input.name = "arm-scope" /\ phase = "halted"

\* The first arm binds n to the subject and is taken when it exceeds 1; its
\* body prints the binding.
ArmBindingVisibleInArm ==
    (ArmScopeDone /\ input.a > 1) => output[1] = NumberToString(input.a)

\* C27: the local an identifier pattern binds is in scope only for the
\* guard and body of its arm: the n of the later arm and the n after the
\* match statement denote the outer n.
C27_PatternLocalScopedToArm ==
    ArmScopeDone =>
        output = <<IF input.a > 1 THEN NumberToString(input.a)
                   ELSE NumberToString(OuterN),
                   NumberToString(OuterN)>>

\* what the compiled code does instead: every later n is the arm's slot
C27_PatternLocalStaysInScope ==
    ArmScopeDone =>
        output = <<NumberToString(input.a), NumberToString(input.a)>>


\* ------------------------------------------------------------------------
\* match: range patterns
\* ------------------------------------------------------------------------
\* The first arm of the "match" program, lo..hi => print(label), when it
\* is a range arm
RangeArm == MatchArms[input.a][1]

RangeFirstDone ==
    /\ input.name = "match"
    /\ RangeArm.pattern.kind = "RangePattern"
    /\ phase = "halted"

\* the run took the range arm: its label is the line written
RangeArmSelected == output = <<RangeArm.body.args[1].value>>

\* C28: a range pattern lo..hi is compiled as two comparisons, so the arm
\* is selected exactly for the subjects from lo to hi; a subject above hi
\* does not select it.
C28_RangeTwoComparisons ==
    RangeFirstDone =>
        (RangeArmSelected <=>
             /\ RangeArm.pattern.start.value <= input.b
             /\ input.b <= RangeArm.pattern.end.value)

\* what the compiled code does instead: only the lower bound is compared
C28_RangeLowerBoundOnly ==
    RangeFirstDone =>
        (RangeArmSelected <=> RangeArm.pattern.start.value <= input.b)


\* ------------------------------------------------------------------------
\* Assignment expressions
\* ------------------------------------------------------------------------
\* the instruction the top frame has just executed
LastInstr == FnOf(TopFrame.fn).code[TopFrame.ip]

InAssignRun ==
    /\ input.name = "assign"
    /\ phase = "running"
    /\ Len(frames) > 0
    /\ TopFrame.ip >= 2
    /\ TopFrame.ip <= Len(FnOf(TopFrame.fn).code)

\* The store of an assignment expression has just run: SET_ATTR and
\* SET_INDEX are emitted for assignments only, and the store to an
\* identifier follows the DUP of compileAssignExpr.
AfterAssignStore ==
    /\ InAssignRun
    /\ \/ LastInstr.op \in {"SET_ATTR", "SET_INDEX"}
       \/ /\ LastInstr.op \in {"STORE_VAR", "STORE_GLOBAL", "STORE_UPVALUE"}
          /\ FnOf(TopFrame.fn).code[TopFrame.ip - 1].op = "DUP"

\* The POP that ends an expression statement has just run
AfterExpressionStatement == InAssignRun /\ LastInstr.op = "POP"

\* C30: an assignment expression to an identifier, member or index target
\* stores the value into the target and leaves exactly one copy of it on
\* the stack, so a = b = v assigns v to both targets and an assignment used
\* as a statement leaves the stack as high as it was.
C30_AssignmentResult ==
    input.name = "assign" =>
        /\ phase # "error"
        /\ AfterAssignStore =>
               /\ Len(stack) = TopFrame.stackBase + 1
               /\ stack[Len(stack)] = ValInt(input.b)
        /\ AfterExpressionStatement => Len(stack) = TopFrame.stackBase
        /\ phase = "halted" =>
               output = <<NumberToString(input.b), NumberToString(input.b)>>

\* The outer store of l[0] = l[1] = v has run: one copy of v is on the
\* stack and both elements of the list hold v
C30_Witness ==
    /\ AfterAssignStore
    /\ AssignKinds[input.a] = "index"
    /\ stack = <<ValInt(input.b)>>
    /\ \E i \in 1..Len(objs) :
           objs[i] = [elements |-> <<ValInt(input.b), ValInt(input.b)>>]

\* a chained assignment through captured variables has ended having
\* printed v twice
C30_WitnessUpvalue ==
    /\ input.name = "assign"
    /\ AssignKinds[input.a] = "upvalue"
    /\ phase = "halted"
    /\ output = <<NumberToString(input.b), NumberToString(input.b)>>


\* ------------------------------------------------------------------------
\* Lexical errors
\* ------------------------------------------------------------------------
\* The text of an "invalid-char" input has been through index.ts compile()
\* or run(), and its stray character is outside strings and comments
StrayCharCompiled ==
    /\ input.name = "invalid-char"
    /\ input.b \in StrayPlaces
    /\ phase # "init"

\* the character is the text of a token of the stream
InTokenStream(x, tokens) == \E i \in 1..Len(tokens) : tokens[i].value = <<x>>

\* compiling was refused with a message
CompileFailed == phase = "rejected" /\ error # <<>> /\ output = <<>>

\* C21: an invalid character is a fatal error.  Compiling a text that has,
\* outside string literals and comments, a character that starts no token
\* (a lone &, a lone |, #, @) fails with an error, and the character is
\* never silently dropped from the token stream.
C21_InvalidCharacterFatal ==
    StrayCharCompiled =>
        /\ CompileFailed
        /\ InTokenStream(InvalidChars[input.a], tokenize(input.text).tokens)

\* what the Lexer does: every such character other than & becomes an
\* INVALID token, which no rule of the Parser accepts
C21_InvalidTokenRejected ==
    (StrayCharCompiled /\ InvalidChars[input.a] # "&") =>
        /\ CompileFailed
        /\ InTokenStream(InvalidChars[input.a], tokenize(input.text).tokens)

\* and a lone & leaves no token: the text is compiled as if the character
\* were a blank
C21_LoneAmpersandDropped ==
    (StrayCharCompiled /\ InvalidChars[input.a] = "&") =>
        /\ ~InTokenStream("&", tokenize(input.text).tokens)
        /\ input.b # 2 => phase # "rejected"


\* ------------------------------------------------------------------------
\* Operator precedence: power and the unary operators
\* ------------------------------------------------------------------------
\* A "power" text has been parsed
PowerParsed ==
    input.name = "power" /\ phase # "init" /\ FrontEnd(input.text).error = ""

\* the expression the text prints, as the Parser read it
PrintedExpression ==
    FrontEnd(input.text).ast.body[Len(FrontEnd(input.text).ast.body)]
        .expression.args[1]

\* the operands and the unary operator of the text
PowerLeft == IF input.a = 4 THEN Identifier("a") ELSE IntLit(input.b)

PowerRight == IF input.a = 4 THEN Identifier("b") ELSE IntLit(input.c)

PowerUnary == IF input.a = 2 THEN "!" ELSE "-"

\* x ** y ** 2 is x ** (y ** 2)
PowerRightAssociative ==
    (PowerParsed /\ input.a = 3) =>
        PrintedExpression =
            BinaryExpr("**", PowerLeft, BinaryExpr("**", PowerRight, IntLit(2)))

\* C29: power binds tighter than unary minus and unary not: - a ** b
\* parses to Unary(-, Binary(**, a, b)), never to
\* Binary(**, Unary(-, a), b); and a ** b ** c parses to
\* Binary(**, a, Binary(**, b, c)).
C29_PowerBindsTighterThanUnary ==
    /\ PowerRightAssociative
    /\ (PowerParsed /\ input.a # 3) =>
           PrintedExpression =
               UnaryExpr(PowerUnary, BinaryExpr("**", PowerLeft, PowerRight))

\* what the Parser does: parsePower reads its left operand with
\* parseUnary, so the unary operator applies to a alone, and - x ** y
\* prints (-x) ** y
C29_UnaryBindsTighterThanPower ==
    /\ PowerRightAssociative
    /\ (PowerParsed /\ input.a # 3) =>
           PrintedExpression =
               BinaryExpr("**", UnaryExpr(PowerUnary, PowerLeft), PowerRight)
    /\ (PowerParsed /\ input.a \in {1, 4} /\ phase = "halted") =>
           output = <<NumberToString(Power(-input.b, input.c))>>
    /\ (PowerParsed /\ input.a = 3 /\ phase = "halted") =>
           output = <<NumberToString(Power(input.b, Power(input.c, 2)))>>

\* the texts a factory program prints: the results of the k calls of c,
\* then (with other = 1) the first result of d and the next result of c
FactoryExpected(k, other) ==
    [i \in 1..(k + 2 * other) |->
        IF i <= k THEN NumberToString(i)
        ELSE IF i = k + 1 THEN "1" ELSE NumberToString(k + 1)]

\* a CALL of a closure that succeeds pushes one frame whose upvalues are
\* the cell array the closure value holds
ClosureCallSharesCells ==
    (/\ CallPending
     /\ CalleeOnTop.type = "closure"
     /\ phase' = "running"
     /\ Len(frames') = Len(frames) + 1)
        => frames'[Len(frames')].upvalues = CalleeOnTop.cells

\* what the factory programs have printed so far is what counters print
FactoryCounts ==
    input.name = "factory" =>
        /\ phase # "error"
        /\ Len(output) <= Len(FactoryExpected(input.a, input.b))
        /\ \A i \in 1..Len(output) :
               output[i] = FactoryExpected(input.a, input.b)[i]
        /\ phase = "halted" => output = FactoryExpected(input.a, input.b)

\* C31: every call of a closure value runs in a frame whose upvalues are
\* that closure's own cell array, so a STORE_UPVALUE made during one call is
\* read by LOAD_UPVALUE in every later call of the same closure: a counter
\* closure returned by a factory yields 1, 2, 3, ... on successive calls,
\* and a second closure made by the same factory counts on its own.
C31_ClosureKeepsItsCells ==
    []FactoryCounts /\ [][ClosureCallSharesCells]_vars

\* the longest factory run ended: c counted to MaxCalls + 1 and d printed 1
C31_Witness ==
    /\ input.name = "factory"
    /\ input.a = MaxCalls
    /\ input.b = 1
    /\ phase = "halted"
    /\ output = FactoryExpected(MaxCalls, 1)
    /\ output[MaxCalls] = NumberToString(MaxCalls)

\* RETURN is about to run in a frame that has a caller
ReturnToCaller ==
    /\ Fetching("RETURN")
    /\ Len(frames) > 1
    /\ Len(stack) >= 1

\* C32: when a call of compiled code returns, the value stack is the stack
\* as it was before the callee and its arguments were pushed plus the one
\* return value: right after RETURN its height is the callee frame's
\* stackBase + 1, whatever statements the callee body executed.
C32_ReturnRestoresStack ==
    [][ReturnToCaller => Len(stack') = TopFrame.stackBase + 1]_vars

\* RETURN removes the return value and the frame and pushes the value back:
\* whatever the callee left above its stackBase stays under the result
C32_ReturnKeepsCalleeLeftovers ==
    [][ReturnToCaller => Len(stack') = Len(stack)]_vars

\* a function whose body ran a match returns with the subject still there
C32_MatchLeftoverAtReturn ==
    [][(ReturnToCaller /\ input.name = "match" /\ input.c = 1)
          => Len(stack') > TopFrame.stackBase + 1]_vars

\* the program holds a match or a for-in statement
HasMatchOrFor ==
    \/ input.name \in {"match", "arm-scope"}
    \/ /\ input.name = "branch"
       /\ \E p \in 1..MaxStmts :
             StmtSeqs(MaxStmts)[input.a][p].kind
                 \in {"MatchStatement", "ForStatement"}

\* in a program without match and for-in every RETURN to a caller leaves
\* the stack at the callee's stackBase + 1
C32_ReturnRestoresWithoutMatch ==
    [][(ReturnToCaller /\ ~HasMatchOrFor)
          => Len(stack') = TopFrame.stackBase + 1]_vars

\* The change of the value-stack height an instruction makes when it
\* completes (CALL: the callee and its arguments go, one result comes)
StackEffect(instr) ==
    CASE instr.op \in {"LOAD_CONST", "LOAD_VAR", "LOAD_GLOBAL",
                       "LOAD_UPVALUE", "DUP"} -> 1
      [] instr.op \in {"STORE_VAR", "STORE_GLOBAL", "STORE_UPVALUE", "POP",
                       "ADD", "SUB", "MUL", "DIV", "MOD", "POW",
                       "EQ", "NE", "LT", "GT", "LE", "GE", "AND", "OR",
                       "JUMP_IF_FALSE", "JUMP_IF_TRUE", "GET_INDEX"} -> -1
      [] instr.op \in {"CALL", "NEW_INSTANCE", "PRINT"} -> -instr.arg
      [] instr.op = "MAKE_LIST" -> 1 - instr.arg
      [] instr.op = "SET_ATTR" -> -2
      [] instr.op = "SET_INDEX" -> -3
      [] OTHER -> 0

\* the instructions control can go to from the instruction at ip
Successors(code, ip) ==
    CASE code[ip + 1].op \in {"HALT", "RETURN"} -> {}
      [] code[ip + 1].op = "JUMP" -> {code[ip + 1].arg}
      [] code[ip + 1].op \in {"JUMP_IF_FALSE", "JUMP_IF_TRUE"} ->
            {code[ip + 1].arg, ip + 1}
      [] OTHER -> {ip + 1}

\* from <<ip, height>>: the places and heights after the instruction at ip
\* (nothing follows the end of the code or a height out of range)
FlowStep(code, p) ==
    IF p[1] >= Len(code) \/ p[2] < 0 \/ p[2] > Len(code) THEN {}
    ELSE {<<t, p[2] + StackEffect(code[p[1] + 1])>> :
             t \in Successors(code, p[1])}

RECURSIVE FlowReach(_, _, _)
FlowReach(code, seen, frontier) ==
    IF frontier = {} THEN seen
    ELSE FlowReach(code, seen \cup frontier,
                   UNION {FlowStep(code, p) : p \in frontier}
                       \ (seen \cup frontier))

\* every <<ip, height>> of the code that some control-flow path from its
\* first instruction reaches, the height counted from the entry height
Heights(code) == FlowReach(code, {}, {<<0, 0>>})

\* the code never goes under its entry height, comes to every instruction
\* at one height along every path, returns with its result alone and ends
\* (HALT, or the end of the code) at the entry height
BalancedHeights(code, H) ==
    /\ \A p \in H : p[2] >= 0 /\ p[2] <= Len(code)
    /\ \A p, q \in H : p[1] = q[1] => p[2] = q[2]
    /\ \A p \in H :
          IF p[1] >= Len(code) THEN p[2] = 0
          ELSE /\ code[p[1] + 1].op = "RETURN" => p[2] = 1
               /\ code[p[1] + 1].op = "HALT" => p[2] = 0

BalancedCode(code) == Bind(Heights(code), LAMBDA H : BalancedHeights(code, H))

\* the top-level statements of the program that was compiled
TopLevelStatements == ParsedInput.ast.body

\* the length of the main code when the first i statements are compiled
BoundaryIp(i) ==
    Len(compileStatements(NewCompiler,
                          SubSeq(TopLevelStatements, 1, i)).currentCode)

\* control comes to the end of top-level statement i at the entry height;
\* the value of a let, var or expression statement is then the one value
\* on the stack before the last instruction of the statement
ExpressionValueKinds == {"LetStatement", "VarStatement", "ExpressionStatement"}

NeutralAt(H, i) ==
    Bind(BoundaryIp(i), LAMBDA b :
        /\ \A p \in H : p[1] = b => p[2] = 0
        /\ (i > 0 /\ TopLevelStatements[i].kind \in ExpressionValueKinds) =>
              \A p \in H : p[1] = b - 1 => p[2] = 1)

NeutralStatements ==
    Bind(Heights(module.mainCode), LAMBDA H :
        \A i \in 0..Len(TopLevelStatements) : NeutralAt(H, i))

\* a program without match and for-in has been compiled
NeutralCase ==
    /\ phase = "ready"
    /\ input.origin \in {"source", "text"}
    /\ ~HasMatchOrFor

\* C33: in the code emitted for a program without match and for-in
\* statements every statement is stack neutral along every control-flow
\* path: control reaches the end of each top-level statement at the height
\* the statement began with, the expression of a let, var or expression
\* statement has left exactly one value before the store or POP that ends
\* the statement, and the main code and every function's code reach each
\* instruction at one height whatever path is taken, return with the
\* result alone on top of the entry height and end at the entry height.
C33_StatementsStackNeutral ==
    NeutralCase =>
        /\ NeutralStatements
        /\ BalancedCode(module.mainCode)
        /\ \A f \in 1..Len(module.fnHeap) : BalancedCode(module.fnHeap[f].code)

\* the instructions of a running program change the height as StackEffect
\* says: a step that stays in its frame moves the height by the effect
StackEffectObserved ==
    [][(/\ Fetchable
        /\ phase' = "running"
        /\ Len(frames') = Len(frames)
        /\ frames'[Len(frames')].serial = TopFrame.serial)
          => Len(stack') = Len(stack) + StackEffect(CurrentInstr)]_vars

\* a compiled program with a class declaration, an if statement and a
\* while loop at the top level, the end of each reached at the entry height
C33_Witness ==
    /\ NeutralCase
    /\ input.name = "branch"
    /\ \A k \in {"ClassDecl", "IfStatement", "WhileStatement"} :
          \E i \in 1..Len(TopLevelStatements) :
              /\ TopLevelStatements[i].kind = k
              /\ <<BoundaryIp(i), 0>> \in Heights(module.mainCode)

\* PRINT n with n >= 2 is about to run with its n arguments on the stack
PrintMany ==
    /\ Fetching("PRINT")
    /\ CurrentInstr.arg >= 2
    /\ Len(stack) >= CurrentInstr.arg

\* the display strings of the n arguments, the first argument first
PrintArgStrings ==
    [i \in 1..CurrentInstr.arg |->
        valueToString(VM, stack[Len(stack) - CurrentInstr.arg + i])]

\* C34: PRINT n with n >= 2 calls the output callback exactly once, with
\* the display strings of its n arguments in source order (first argument
\* first) separated by single spaces, and pops exactly the n arguments.
C34_PrintArgumentsInSourceOrder ==
    [][PrintMany =>
          /\ output' = Append(output, Join(PrintArgStrings, " "))
          /\ stack' = SubSeq(stack, 1, Len(stack) - CurrentInstr.arg)]_vars

\* what PRINT n does: one line, the display strings of the n arguments with
\* the last argument first, and the n arguments popped
C34_PrintArgumentsReversed ==
    [][PrintMany =>
          /\ output' = Append(output, Join(Reverse(PrintArgStrings), " "))
          /\ stack' = SubSeq(stack, 1, Len(stack) - CurrentInstr.arg)
          /\ phase' = "running"]_vars

\* print(1, .., n) writes the one line "n .. 1"
C34_PrintManyOutput ==
    (input.name = "print-many" /\ phase = "halted") =>
        output = <<Join([i \in 1..input.a |->
                            NumberToString(input.a + 1 - i)], " ")>>

UpvalueOps == {"LOAD_UPVALUE", "STORE_UPVALUE"}

\* every upvalue operand in the code of fn is smaller than its upvalueCount
UpvalueOperandsInRange(fn) ==
    /\ fn.upvalueCount = Len(fn.upvalues)
    /\ \A i \in 1..Len(fn.code) :
          fn.code[i].op \in UpvalueOps => fn.code[i].arg < fn.upvalueCount

\* the functions that are methods of a class of the module
MethodIds ==
    UNION {{module.classHeap[c].methods[n] :
                n \in DOMAIN module.classHeap[c].methods} :
           c \in 1..Len(module.classHeap)}

\* C35: in every compiled function of a module, class methods and lambdas
\* included, every LOAD_UPVALUE/STORE_UPVALUE operand is smaller than the
\* function's upvalueCount (the length of its descriptor array), and an
\* upvalue instruction that runs finds the cell in its frame's cell array;
\* also for a method of a class declared inside a function that refers to
\* a local of that function.
C35_UpvalueOperandsInRange ==
    Compiled =>
        /\ \A f \in 1..Len(module.fnHeap) :
               UpvalueOperandsInRange(module.fnHeap[f])
        /\ \A i \in 1..Len(module.mainCode) :
               module.mainCode[i].op \notin UpvalueOps
        /\ (Fetchable /\ CurrentInstr.op \in UpvalueOps) =>
               UpvalueCell(CurrentInstr.arg) # 0

\* outside the methods the operands are in range, and a frame that is not
\* a method's finds the cell of every upvalue instruction it runs
C35_InRangeOutsideMethods ==
    Compiled =>
        /\ \A f \in (1..Len(module.fnHeap)) \ MethodIds :
               UpvalueOperandsInRange(module.fnHeap[f])
        /\ \A i \in 1..Len(module.mainCode) :
               module.mainCode[i].op \notin UpvalueOps
        /\ (Fetchable /\ CurrentInstr.op \in UpvalueOps
                /\ TopFrame.fn \notin MethodIds) =>
               UpvalueCell(CurrentInstr.arg) # 0

\* a method's upvalueCount is 0 whatever its code refers to, and the
\* method of the inner class has an upvalue instruction with operand 0
C35_MethodsDeclareNoUpvalues ==
    Compiled =>
        /\ \A f \in MethodIds : module.fnHeap[f].upvalueCount = 0
        /\ input.name = "inner-class" =>
              \E f \in MethodIds :
                  \E i \in 1..Len(module.fnHeap[f].code) :
                      /\ module.fnHeap[f].code[i].op \in UpvalueOps
                      /\ module.fnHeap[f].code[i].arg = 0

\* what l() o r() is: the boolean of the truthiness of both results
LogicResult(o, x, y) ==
    IF LogicOps[o] = "&&"
    THEN ValBool(isTruthy(ValInt(x)) /\ isTruthy(ValInt(y)))
    ELSE ValBool(isTruthy(ValInt(x)) \/ isTruthy(ValInt(y)))

\* what a logic program prints: l ran, then r ran, then the result
LogicExpected ==
    <<"l", "r", valueToString(VM, LogicResult(input.a, input.b, input.c))>>

\* both operands run, the left one first, whatever the left one gave, and
\* no jump stands in the code of the expression
LogicRunsBothOperands ==
    (input.name = "logic" /\ Compiled) =>
        /\ JumpsAt(module.mainCode) = {}
        /\ phase # "error"
        /\ Len(output) <= 3
        /\ output = SubSeq(LogicExpected, 1, Len(output))
        /\ phase = "halted" => Len(output) = 3

\* AND and OR take the two operand values and push a boolean made from
\* the truthiness of both
LogicStep ==
    (/\ Fetchable
     /\ CurrentInstr.op \in {"AND", "OR"}
     /\ Len(stack) >= 2)
        => stack' = Append(SubSeq(stack, 1, Len(stack) - 2),
                       IF CurrentInstr.op = "AND"
                       THEN ValBool(isTruthy(stack[Len(stack) - 1])
                                        /\ isTruthy(stack[Len(stack)]))
                       ELSE ValBool(isTruthy(stack[Len(stack) - 1])
                                        \/ isTruthy(stack[Len(stack)])))

\* C36: && and || do not short-circuit: both operands are evaluated, the
\* left one first, before AND/OR executes, so the side effects of the
\* right operand occur whatever the truthiness of the left operand, and
\* the result is a boolean computed from the truthiness of both.
C36_NoShortCircuit ==
    []LogicRunsBothOperands /\ [][LogicStep]_vars

\* l() && r() with a falsy left result has run r and printed false, and
\* l() || r() with a truthy left result has run r and printed true
C36_Witness ==
    /\ input.name = "logic"
    /\ phase = "halted"
    /\ \/ LogicOps[input.a] = "&&" /\ input.b = 0 /\ input.c = 1
          /\ output = <<"l", "r", "false">>
       \/ LogicOps[input.a] = "||" /\ input.b = 1 /\ input.c = 0
          /\ output = <<"l", "r", "true">>

\* CALL is about to run on compiled code (a function, a closure or a bound
\* method) and pushes a frame
CompiledCall ==
    /\ CallPending
    /\ phase' = "running"
    /\ Len(frames') > Len(frames)

\* the frame stack with the executing frame moved past its instruction
FramesAfterFetch == [frames EXCEPT ![Len(frames)].ip = @ + 1]

\* a CALL of compiled code pushes exactly one frame, with ip 0 and locals
\* made of the values of this call (the arguments, after the receiver for
\* a bound method), on top of the frames there were
CallPushesOneFrame ==
    CompiledCall =>
        /\ Len(frames') = Len(frames) + 1
        /\ SubSeq(frames', 1, Len(frames)) = FramesAfterFetch
        /\ frames'[Len(frames')].ip = 0
        /\ IF CalleeOnTop.type = "boundMethod"
           THEN /\ Len(frames'[Len(frames')].locals) = CurrentInstr.arg + 1
                /\ frames'[Len(frames')].locals[1] = CalleeOnTop.receiver
                /\ \A i \in 1..CurrentInstr.arg :
                       \E j \in 2..(CurrentInstr.arg + 1) :
                           frames'[Len(frames')].locals[j] = PendingArgs[i]
           ELSE frames'[Len(frames')].locals = PendingArgs

\* RETURN to a caller pops exactly one frame and leaves the others as
\* they are
ReturnPopsOneFrame ==
    ReturnToCaller => frames' = SubSeq(frames, 1, Len(frames) - 1)

\* no step changes a frame under the executing one: its ip stays at the
\* instruction after its CALL and its locals stay what they are
LowerFramesUntouched ==
    \A k \in 1..(Len(frames) - 1) :
        k <= Len(frames') => frames'[k] = frames[k]

\* every frame under the executing one waits right after a CALL
CallersWaitAfterCall ==
    \A k \in 1..(Len(frames) - 1) :
        /\ frames[k].ip >= 1
        /\ FnOf(frames[k].fn).code[frames[k].ip].op = "CALL"

\* d(k) prints the t of each call, the deepest first: 0, 1, .., k
RecursionKeepsLocals ==
    input.name = "recurse" =>
        /\ phase # "error"
        /\ Len(output) <= input.a + 1
        /\ \A i \in 1..Len(output) : output[i] = NumberToString(i - 1)
        /\ phase = "halted" => Len(output) = input.a + 1

\* C37: frames are strictly LIFO and isolated: each CALL of compiled code
\* pushes exactly one frame with ip 0 and a locals vector of its own, each
\* RETURN pops exactly one frame, and when the callee returns the caller
\* resumes at the instruction following its CALL with its locals unchanged
\* by any STORE_VAR the callee executed, at any nesting or recursion depth.
C37_FramesLifoAndIsolated ==
    /\ [](CallersWaitAfterCall /\ RecursionKeepsLocals)
    /\ [][CallPushesOneFrame /\ ReturnPopsOneFrame
              /\ LowerFramesUntouched]_vars

\* the recursion went MaxFrames - 1 calls deep and every call has returned
\* to its caller, which then printed its own t
C37_Witness ==
    /\ input.name = "recurse"
    /\ input.a = MaxFrames - 2
    /\ phase = "halted"
    /\ Len(output) = MaxFrames - 1
    /\ output[Len(output)] = NumberToString(MaxFrames - 2)

\* what an alias program prints: a[1] after b[1] = v; o.f after q.f = v;
\* q.f after o.set(v + 1); b[0] and q.f after put(a, o, v); a[0], c[0] and
\* c[2] after c = a + b and c[0] = v + 3
AliasExpected(v) ==
    <<NumberToString(v), NumberToString(v), NumberToString(v + 1),
      NumberToString(v), NumberToString(v + 2),
      NumberToString(v), NumberToString(v + 3), NumberToString(v)>>

\* every holder sees the store made through another holder
AliasObserved ==
    input.name = "alias" =>
        /\ phase # "error"
        /\ Len(output) <= Len(AliasExpected(input.a))
        /\ output = SubSeq(AliasExpected(input.a), 1, Len(output))
        /\ phase = "halted" => output = AliasExpected(input.a)

\* ADD is about to run on two lists
ListAdd ==
    /\ Fetching("ADD")
    /\ Len(stack) >= 2
    /\ stack[Len(stack)].type = "list"
    /\ stack[Len(stack) - 1].type = "list"

\* ADD of two lists makes a new list of the elements of both and leaves
\* every list and instance there was, the operands included, as it is
ListAddMakesNewList ==
    ListAdd =>
        /\ Len(objs') = Len(objs) + 1
        /\ SubSeq(objs', 1, Len(objs)) = objs
        /\ objs'[Len(objs')].elements =
              objs[stack[Len(stack) - 1].value].elements
                  \o objs[stack[Len(stack)].value].elements
        /\ stack' = Append(SubSeq(stack, 1, Len(stack) - 2),
                           ValList(Len(objs')))

\* a list or instance value is the name of one object: loading, storing,
\* passing or binding it never makes another object; only MAKE_LIST,
\* NEW_INSTANCE and ADD of two lists do
HoldersShareObject ==
    (Fetchable /\ ~ListAdd
        /\ CurrentInstr.op \notin {"MAKE_LIST", "NEW_INSTANCE"})
            => Len(objs') = Len(objs)

\* C38: instances and lists are reference values: once the same instance
\* or list is reachable through two variables, or was passed as a method
\* receiver or an argument, a SET_ATTR or SET_INDEX made through one holder
\* is observed by GET_ATTR/GET_INDEX through every other holder, whereas
\* ADD of two lists yields a new list and leaves both operands unchanged.
C38_ReferenceValues ==
    []AliasObserved /\ [][ListAddMakesNewList /\ HoldersShareObject]_vars

\* an alias program has run to its end: every store was seen through the
\* other holder and the sum list was changed alone
C38_Witness ==
    /\ input.name = "alias"
    /\ input.a = MaxVal
    /\ phase = "halted"
    /\ output = AliasExpected(MaxVal)
    /\ \E i, j \in 1..Len(objs) :
          /\ i # j
          /\ "elements" \in DOMAIN objs[i]
          /\ "elements" \in DOMAIN objs[j]
          /\ objs[i].elements = <<ValInt(MaxVal), ValInt(MaxVal)>>
          /\ Len(objs[j].elements) = 4
          /\ objs[j].elements[1] = ValInt(MaxVal + 3)

====
